---------------------------- MODULE Spec2Model ----------------------------
(***************************************************************************)
(* A model of the metadata core of the Liam media library (Electron main   *)
(* process): the persisted metadata store and the IPC operations that      *)
(* write it (src/main/main.ts, metadataHandler), the per-unit              *)
(* reconciliation of 'scan-and-fetch-metadata', and the two provider       *)
(* handlers (malHandler, anilistHandler) with their retry loops.           *)
(*                                                                         *)
(* Strings are sequences of one-character strings, so that the regular     *)
(* expression replacements of the source are computed, not assumed.        *)
(* Episode numbers are kept in tenths (6.5 is 65, 1 is 10), so that        *)
(* Number.isInteger(e) is e % 10 = 0.                                      *)
(***************************************************************************)
EXTENDS Integers, Sequences, FiniteSets, TLC

\* JavaScript null
NULL == "null"

-----------------------------------------------------------------------------
(* Strings *)

UpperChars == <<"A","B","C","D","E","F","G","H","I","J","K","L","M",
                "N","O","P","Q","R","S","T","U","V","W","X","Y","Z">>
LowerChars == <<"a","b","c","d","e","f","g","h","i","j","k","l","m",
                "n","o","p","q","r","s","t","u","v","w","x","y","z">>
DigitChars == {"0","1","2","3","4","5","6","7","8","9"}

IsUpper(c) == \E k \in 1..26 : UpperChars[k] = c
IsLowerAlpha(c) == \E k \in 1..26 : LowerChars[k] = c
IsDigit(c) == c \in DigitChars
IsSpace(c) == c = " "

ToLowerChar(c) ==
  IF IsUpper(c) THEN LowerChars[CHOOSE k \in 1..26 : UpperChars[k] = c] ELSE c

\* the strings: the functions of a string take it as a value
Str == Seq(STRING)

\* String.prototype.toLowerCase
ToLowerCase[s \in Str] == [k \in 1..Len(s) |-> ToLowerChar(s[k])]

\* the length of the run of characters satisfying P at the start of s
SpaceRun[s \in Str] == IF s # <<>> /\ IsSpace(Head(s)) THEN 1 + SpaceRun[Tail(s)] ELSE 0

DigitRun[s \in Str] == IF s # <<>> /\ IsDigit(Head(s)) THEN 1 + DigitRun[Tail(s)] ELSE 0

Drop(s, n) == SubSeq(s, n + 1, Len(s))
Take(s, n) == SubSeq(s, 1, n)

StartsWith(s, p) == Len(s) >= Len(p) /\ Take(s, Len(p)) = p

\* String.prototype.trim
TrimEnd[s \in Str] ==
  IF s # <<>> /\ IsSpace(s[Len(s)]) THEN TrimEnd[Take(s, Len(s) - 1)] ELSE s

Trim[s \in Str] == TrimEnd[Drop(s, SpaceRun[s])]

\* String.prototype.includes
Includes(s, sub) ==
  \E k \in 0..(Len(s) - Len(sub)) : SubSeq(s, k + 1, k + Len(sub)) = sub

\* Number -> decimal digits (String(n)) for n >= 0
NatToStr[n \in Nat] ==
  LET d == <<"0","1","2","3","4","5","6","7","8","9">>[(n % 10) + 1]
  IN IF n < 10 THEN <<d>> ELSE NatToStr[n \div 10] \o <<d>>

-----------------------------------------------------------------------------
(* Title comparison of the cache check, main.ts 411-432 *)

SeasonParenWord == <<"(","s","e","a","s","o","n">>
SeasonWord == <<"s","e","a","s","o","n">>

\* the length of the match of /\(season\s*\d+\)/i anchored at the start of s,
\* 0 when there is none
SeasonParenLenAt(s) ==
  IF ~StartsWith(ToLowerCase[s], SeasonParenWord) THEN 0
  ELSE LET r2 == Drop(s, Len(SeasonParenWord))
           b  == SpaceRun[r2]
           r3 == Drop(r2, b)
           d  == DigitRun[r3]
       IN IF d >= 1 /\ Len(r3) > d /\ r3[d + 1] = ")"
          THEN Len(SeasonParenWord) + b + d + 1
          ELSE 0

\* the length of the match of /\s*\(season\s*\d+\)/i anchored at the start of s
SpacedSeasonParenLenAt(s) ==
  LET a == SpaceRun[s]
      m == SeasonParenLenAt(Drop(s, a))
  IN IF m > 0 THEN a + m ELSE 0

\* .replace(/\s*\(season\s*\d+\)/gi, '')
RemoveSeasonParen[s \in Str] ==
  IF s = <<>> THEN <<>>
  ELSE LET m == SpacedSeasonParenLenAt(s)
       IN IF m > 0 THEN RemoveSeasonParen[Drop(s, m)]
          ELSE <<Head(s)>> \o RemoveSeasonParen[Tail(s)]

KeepsComparisonChar(c) == IsLowerAlpha(c) \/ IsDigit(c) \/ IsSpace(c)

\* .replace(/[^a-z0-9\s]/g, '')
RemoveSpecialChars(s) == SelectSeq(s, KeepsComparisonChar)

\* .replace(/\s+/g, ' ')
CollapseSpaces[s \in Str] ==
  IF s = <<>> THEN <<>>
  ELSE IF IsSpace(Head(s))
       THEN <<" ">> \o CollapseSpaces[Drop(s, SpaceRun[s])]
       ELSE <<Head(s)>> \o CollapseSpaces[Tail(s)]

normalizeForComparison[title \in Str] ==
  Trim[CollapseSpaces[RemoveSpecialChars(RemoveSeasonParen[title])]]

normalizedOf[s \in Str] == normalizeForComparison[Trim[ToLowerCase[s]]]

\* the comparison with the containment test open to names of 3 characters
titlesMatch_from3(cachedTitle, seriesName) ==
  LET normalizedCached == normalizedOf[cachedTitle]
      normalizedSeries == normalizedOf[seriesName]
  IN \/ normalizedCached = normalizedSeries
     \/ /\ Len(normalizedSeries) >= 3
        /\ \/ Includes(normalizedCached, normalizedSeries)
           \/ Includes(normalizedSeries, normalizedCached)

titlesMatch(cachedTitle, seriesName) ==
  LET normalizedCached == normalizedOf[cachedTitle]
      normalizedSeries == normalizedOf[seriesName]
  IN \/ normalizedCached = normalizedSeries
     \/ /\ Len(normalizedSeries) >= 5
        /\ \/ Includes(normalizedCached, normalizedSeries)
           \/ Includes(normalizedSeries, normalizedCached)

\* /\(Season\s*\d+\)/i.test(title), main.ts 447 and 646
HasSeasonParen(title) ==
  \E k \in 0..(Len(title) - 1) : SeasonParenLenAt(Drop(title, k)) > 0

\* /Season\s*\d+/i.test(title), main.ts 696
HasSeasonWord(title) ==
  \E k \in 0..(Len(title) - 1) :
     LET r == Drop(title, k)
     IN /\ StartsWith(ToLowerCase[r], SeasonWord)
        /\ LET r2 == Drop(r, Len(SeasonWord))
           IN DigitRun[Drop(r2, SpaceRun[r2])] >= 1

\* `${title} (Season ${n})`
WithSeasonSuffix(title, n) ==
  title \o <<" ","(","S","e","a","s","o","n"," ">> \o NatToStr[n] \o <<")">>


-----------------------------------------------------------------------------
(* Data: scanned media units, provider metadata, series records *)

\* An optional number (number | null): <<>> is null, <<n>> is n.
None == <<>>
Some(n) == <<n>>
IsSome(o) == o # <<>>
ValueOf(o) == o[1]

-----------------------------------------------------------------------------
(* Regular expressions of folderHandler.ts, matched as JavaScript matches   *)
(* them: leftmost start, alternatives in order, greedy repetition with      *)
(* backtracking                                                             *)

Letters == {UpperChars[k] : k \in 1..26} \cup {LowerChars[k] : k \in 1..26}
\* \w
WordChars == Letters \cup DigitChars \cup {"_"}
\* the characters of the file and folder names considered
Alphabet == WordChars \cup {" ", ".", "-", "[", "]", "(", ")", ":", "!"}
\* \s
Space == {" "}

\* a quantifier without an upper limit
Many == 99

\* a TLA+ string as the sequence of its characters, and back
Chars(text) == [k \in 1..Len(text) |-> SubSeq(text, k, k)]
\* the one element of a set of one element: The({e : x \in {v}}) is e with
\* x standing for the value of v
The(S) == CHOOSE r \in S : TRUE

\* Array.prototype.map
RECURSIVE Map(_, _)
Map(F(_), s) == The({IF t = <<>> THEN <<>> ELSE <<F(Head(t))>> \o Map(F, Tail(t)) : t \in {s}})

RECURSIVE Text(_)
Text(s) ==
  The({IF t = <<>> THEN ""
       ELSE IF Len(t) = 1 THEN t[1]
       ELSE Text(SubSeq(t, 1, Len(t) \div 2)) \o Text(SubSeq(t, Len(t) \div 2 + 1, Len(t))) :
         t \in {s}})

\* one regular expression is a sequence of items: a character class repeated
\* lo..hi times (greedily unless lazy, capturing into group cap when cap > 0),
\* a literal text (ci: under the i flag), an assertion, a group of
\* alternatives, or a negative lookahead
Item(kind, cs, lo, hi, cap, lazy, text, ci, alts) ==
  <<[k |-> kind, cs |-> cs, lo |-> lo, hi |-> hi, cap |-> cap, lazy |-> lazy,
     text |-> text, ci |-> ci, alts |-> alts]>>
Cls(cs, lo, hi, cap) == Item("set", cs, lo, hi, cap, FALSE, <<>>, FALSE, <<>>)
\* .*? and the like
ClsLazy(cs, lo, hi) == Item("set", cs, lo, hi, 0, TRUE, <<>>, FALSE, <<>>)
Lit(text) == Item("lit", {}, 0, 0, 0, FALSE, Chars(text), FALSE, <<>>)
LitI(text) == Item("lit", {}, 0, 0, 0, FALSE, Chars(text), TRUE, <<>>)
\* \b and $
WordB == Item("wordBoundary", {}, 0, 0, 0, FALSE, <<>>, FALSE, <<>>)
EndOfInput == Item("end", {}, 0, 0, 0, FALSE, <<>>, FALSE, <<>>)
\* (?:a|b|...), (?:a)? and (?!a)
Alt(alts) == Item("alt", {}, 0, 0, 0, FALSE, <<>>, FALSE, alts)
Opt(re) == Alt(<<re, <<>>>>)
NotAhead(re) == Item("nla", {}, 0, 0, 0, FALSE, <<>>, FALSE, <<re>>)
\* \d{lo,hi} and \s{lo,}
Digits(lo, hi, cap) == Cls(DigitChars, lo, hi, cap)
Spaces(lo) == Cls(Space, lo, Many, 0)

NoMatch == [ok |-> FALSE, start |-> 0, end |-> 0, caps |-> <<<<>>, <<>>>>]

\* the match of re in s that begins at pos, item by item
RECURSIVE MatchAtItem(_, _, _, _)
MatchAtItem(re, s, pos, caps) ==
  IF re = <<>> THEN [ok |-> TRUE, start |-> 0, end |-> pos, caps |-> caps]
  ELSE
    LET e == Head(re)
        rest == Tail(re)
        isWord(p) == p >= 1 /\ p <= Len(s) /\ s[p] \in WordChars
        \* of the tries that succeed, the one numbered highest, or lowest
        Chosen(good, lowest) ==
          IF good = {} THEN NoMatch
          ELSE The({t \in good : \A u \in good : IF lowest THEN t[1] <= u[1]
                                                  ELSE t[1] >= u[1]})[2]
    IN CASE e.k = "set" ->
              LET run == Cardinality({n \in 1..(Len(s) - pos + 1) :
                                        n <= e.hi /\ \A j \in 0..(n - 1) : s[pos + j] \in e.cs})
                  capsWith(n) == IF e.cap = 0 THEN caps
                                 ELSE [caps EXCEPT ![e.cap] = SubSeq(s, pos, pos + n - 1)]
              IN The({Chosen({t \in tries : t[2].ok}, e.lazy) :
                        tries \in {{<<n, MatchAtItem(rest, s, pos + n, capsWith(n))>> :
                                      n \in e.lo..run}}})
         [] e.k = "lit" ->
              IF /\ pos + Len(e.text) - 1 <= Len(s)
                 /\ \A j \in 1..Len(e.text) :
                      IF e.ci THEN ToLowerChar(s[pos + j - 1]) = ToLowerChar(e.text[j])
                      ELSE s[pos + j - 1] = e.text[j]
              THEN MatchAtItem(rest, s, pos + Len(e.text), caps) ELSE NoMatch
         [] e.k = "wordBoundary" ->
              IF isWord(pos - 1) # isWord(pos) THEN MatchAtItem(rest, s, pos, caps)
              ELSE NoMatch
         [] e.k = "end" ->
              IF pos = Len(s) + 1 THEN MatchAtItem(rest, s, pos, caps) ELSE NoMatch
         [] e.k = "alt" ->
              The({Chosen({t \in tries : t[2].ok}, TRUE) :
                     tries \in {{<<j, MatchAtItem(e.alts[j] \o rest, s, pos, caps)>> :
                                   j \in 1..Len(e.alts)}}})
         [] e.k = "nla" ->
              IF MatchAtItem(e.alts[1], s, pos, caps).ok THEN NoMatch
              ELSE MatchAtItem(rest, s, pos, caps)

\* the match of re in s that begins at pos, NoMatch when there is none; end
\* is the position after the match
MatchAt(re, s, pos, caps) ==
  The({MatchAtItem(r, t, p, c) : r \in {re}, t \in {s}, p \in {pos}, c \in {caps}})

\* the leftmost match of re in s that begins at `from` or later
SearchFrom(re, s, from) ==
  The({IF good = {} THEN NoMatch ELSE The({m \in good : \A u \in good : m.start <= u.start}) :
         good \in {{m \in {[MatchAtItem(re, s, i, NoMatch.caps) EXCEPT !.start = i] :
                             i \in from..(Len(s) + 1)} : m.ok}}})

\* String.prototype.match without the g flag: the leftmost match from `from`
Search(re, s, from) == The({SearchFrom(r, t, f) : r \in {re}, t \in {s}, f \in {from}})

\* String.prototype.replace with a pattern without the g flag
Replace(re, s, by) ==
  The({The({IF m.ok THEN SubSeq(t, 1, m.start - 1) \o by \o SubSeq(t, m.end, Len(t)) ELSE t :
              m \in {Search(re, t, 1)}}) : t \in {s}})

\* String.prototype.replace with a pattern with the g flag (none of the
\* patterns matches the empty string), from `from` on
RECURSIVE ReplaceAllFrom(_, _, _, _)
ReplaceAllFrom(re, s, by, from) ==
  The({IF ~m.ok THEN SubSeq(s, from, Len(s))
       ELSE SubSeq(s, from, m.start - 1) \o by \o ReplaceAllFrom(re, s, by, m.end) :
         m \in {Search(re, s, from)}})

ReplaceAll(re, s, by) == The({ReplaceAllFrom(r, t, by, 1) : r \in {re}, t \in {s}})

\* parseInt(digits, 10)
RECURSIVE ParseInt(_)
ParseInt(ds) ==
  The({IF d = <<>> THEN 0
       ELSE ParseInt(SubSeq(d, 1, Len(d) - 1)) * 10
            + (CHOOSE v \in 0..9 : NatToStr[v] = <<d[Len(d)]>>) : d \in {ds}})

-----------------------------------------------------------------------------
(* folderHandler.ts: the filename tokenizer *)

VIDEO_EXTENSIONS == {Chars(".mp4"), Chars(".mkv"), Chars(".avi"), Chars(".mov"), Chars(".wmv"), Chars(".flv"), Chars(".webm"), Chars(".m4v")}

\* path.extname of a name without directory part: from the last "." on,
\* "" when there is none or the name begins with its only "."
extname(filename) ==
  The({The({LET last == The({k \in dots : \A j \in dots : j <= k})
            IN IF dots = {} \/ last = 1 THEN <<>> ELSE SubSeq(f, last, Len(f)) :
              dots \in {{k \in 1..Len(f) : f[k] = "."}}}) : f \in {filename}})

isVideoFile(filename) == ToLowerCase[extname(filename)] \in VIDEO_EXTENSIONS

\* the name with its extension left on
getBaseName_keepingExtension(filename) == filename

\* basename(filename, extname(filename))
getBaseName(filename) == The({SubSeq(f, 1, Len(f) - Len(extname(f))) : f \in {filename}})

\* the patterns of extractSeasonAndEpisode, in the order they are tried
SeasonEpisodePattern ==
  WordB \o LitI("S") \o Digits(1, Many, 1) \o LitI("E") \o Digits(1, Many, 2) \o WordB
DecimalEpisodePattern ==
  LitI("Episode") \o Spaces(0) \o Digits(1, Many, 1) \o Lit(".") \o Digits(1, Many, 2)
EpisodePatterns ==
  << LitI("Episode") \o Spaces(0) \o Digits(1, Many, 1),
     LitI("Ep") \o Cls({"."}, 0, 1, 0) \o Spaces(0) \o Digits(1, Many, 1),
     LitI("E") \o Digits(2, Many, 1),
     Cls(Space, 1, 1, 0) \o Lit("-") \o Spaces(0) \o Digits(1, Many, 1)
        \o Alt(<<Cls(Space, 1, 1, 0), EndOfInput>>),
     Lit("[") \o Digits(1, Many, 1) \o Lit("]"),
     Cls(Space, 1, 1, 0) \o Digits(1, 3, 1) \o Alt(<<Cls(Space, 1, 1, 0), EndOfInput>>) >>

\* baseName.match(/\d+/g): the digit runs, left to right
RECURSIVE DigitRunsFrom(_, _)
DigitRunsFrom(s, from) ==
  The({IF m.ok THEN <<m.caps[1]>> \o DigitRunsFrom(s, m.end) ELSE <<>> :
         m \in {Search(Digits(1, Many, 1), s, from)}})

\* the first pattern of the list that matches, 0 when none does
FirstMatching(patterns, s) ==
  The({IF hits = {} THEN 0 ELSE The({k \in hits : \A j \in hits : k <= j}) :
         hits \in {{k \in 1..Len(patterns) : Search(patterns[k], s, 1).ok}}})

\* extractSeasonAndEpisode 44-106, given the base name
TokensOf(baseName) ==
  LET seasonEpisodeMatch == Search(SeasonEpisodePattern, baseName, 1)
      decimalEpisodeMatch == Search(DecimalEpisodePattern, baseName, 1)
      k == FirstMatching(EpisodePatterns, baseName)
      numbers == DigitRunsFrom(baseName, 1)
      isYear(n) == ParseInt(n) >= 1900 /\ ParseInt(n) <= 2099
      nonYearNumbers == SelectSeq(numbers, LAMBDA n : ~isYear(n))
  IN IF seasonEpisodeMatch.ok
     THEN The({[season |-> Some(ParseInt(m.caps[1])), episode |-> 10 * ParseInt(m.caps[2])] :
                 m \in {seasonEpisodeMatch}})
     ELSE IF decimalEpisodeMatch.ok
     THEN The({[season |-> None,
                episode |-> 10 * ParseInt(m.caps[1]) + ParseInt(m.caps[2])] :
                 m \in {decimalEpisodeMatch}})
     ELSE The({IF p # 0
               THEN [season |-> None,
                     episode |-> 10 * ParseInt(Search(EpisodePatterns[p], baseName, 1).caps[1])]
               ELSE The({IF runs # <<>>
                         THEN [season |-> None, episode |-> 10 * ParseInt(runs[Len(runs)])]
                         ELSE [season |-> None, episode |-> 10] :
                           runs \in {nonYearNumbers}}) :
                 p \in {k}})

\* extractSeasonAndEpisode: the episode is in tenths
extractSeasonAndEpisode(filename) == The({TokensOf(baseName) : baseName \in {getBaseName(filename)}})

-----------------------------------------------------------------------------
(* folderHandler.ts: season and part of a folder, series name, identifier *)

\* the first capture of the first pattern that matches, parsed; null if none
FirstNumber(patterns, s) ==
  The({IF k = 0 THEN None ELSE Some(ParseInt(Search(patterns[k], s, 1).caps[1])) :
         k \in {FirstMatching(patterns, s)}})

extractSeasonNumber(folderName) ==
  FirstNumber(<< LitI("Season") \o Spaces(0) \o Digits(1, Many, 1),
                 WordB \o LitI("S") \o Digits(1, Many, 1) \o WordB,
                 LitI("Season") \o Spaces(0) \o Digits(1, Many, 1) >>, folderName)

extractPartNumber(folderName) ==
  FirstNumber(<< LitI("Part") \o Spaces(0) \o Digits(1, Many, 1),
                 WordB \o LitI("P") \o Digits(1, Many, 1) \o WordB >>, folderName)

\* (\.\d+)?  [ab]? under the i flag or not  (?:\s|$)  .*$
Fraction == Opt(Lit(".") \o Digits(1, Many, 0))
SpaceOrEnd == Alt(<<Cls(Space, 1, 1, 0), EndOfInput>>)
ToEnd == Cls(Alphabet, 0, Many, 0) \o EndOfInput

\* the replacements of extractSeriesNameFromFilenames 158-174, in order:
\* pattern, replacement, g flag
NamePatterns ==
  << <<Spaces(0) \o WordB \o LitI("S") \o Digits(1, Many, 0) \o LitI("E")
         \o Digits(1, Many, 0) \o Fraction \o WordB \o ToEnd, <<>>, FALSE>>,
     <<Spaces(0) \o WordB \o LitI("E") \o Digits(1, Many, 0) \o Fraction \o WordB
         \o ToEnd, <<>>, FALSE>>,
     <<Spaces(0) \o WordB \o LitI("Part") \o Spaces(0) \o Digits(1, Many, 0)
         \o WordB \o ToEnd, <<>>, FALSE>>,
     <<Spaces(0) \o WordB \o LitI("Season") \o Spaces(0) \o Digits(1, Many, 0)
         \o WordB \o ToEnd, <<>>, FALSE>>,
     <<Spaces(0) \o LitI("Episode") \o Spaces(0) \o Digits(1, Many, 0) \o Fraction
         \o Cls({"a", "b", "A", "B"}, 0, 1, 0) \o Spaces(0) \o ToEnd, <<>>, FALSE>>,
     <<Spaces(0) \o LitI("Ep") \o Cls({"."}, 0, 1, 0) \o Spaces(0)
         \o Digits(1, Many, 0) \o Fraction \o Cls({"a", "b", "A", "B"}, 0, 1, 0)
         \o Spaces(0) \o ToEnd, <<>>, FALSE>>,
     <<Spaces(0) \o Lit("[") \o Digits(1, Many, 0) \o Fraction
         \o Cls({"a", "b"}, 0, 1, 0) \o Lit("]") \o ToEnd, <<>>, FALSE>>,
     <<Spaces(0) \o Lit("-") \o Spaces(0) \o Digits(1, 4, 0) \o Fraction
         \o Cls({"a", "b"}, 0, 1, 0) \o SpaceOrEnd \o ToEnd, <<>>, FALSE>>,
     <<Spaces(1) \o Digits(1, 3, 0) \o NotAhead(Digits(1, 1, 0)) \o SpaceOrEnd,
       <<>>, TRUE>>,
     <<Spaces(0) \o Lit("[")
         \o Alt(<<Lit("1080"), Lit("720"), Lit("480"), Lit("360")>>)
         \o Cls({"p", "P"}, 0, 1, 0) \o Lit("]") \o Spaces(0), <<" ">>, TRUE>>,
     <<Spaces(0) \o Lit("[")
         \o Alt(<<LitI("HD"), LitI("SD"), LitI("FHD"), LitI("UHD")>>)
         \o Cls({"]"}, 0, 1, 0) \o Spaces(0), <<" ">>, TRUE>>,
     <<Spaces(0) \o Lit("(") \o Digits(4, 4, 0) \o Lit(")") \o Spaces(0)
         \o EndOfInput, <<>>, FALSE>>,
     <<Spaces(0) \o Lit("(") \o Cls(Alphabet \ {")"}, 0, Many, 0) \o Lit(")")
         \o Spaces(0), <<" ">>, TRUE>>,
     <<Lit("."), <<" ">>, TRUE>>,
     <<Lit("_"), <<" ">>, TRUE>>,
     <<Spaces(1), <<" ">>, TRUE>> >>

\* the replacements of cleanMovieTitle 274-281
MoviePatterns ==
  << <<Spaces(0) \o Lit("(") \o ClsLazy(Alphabet, 0, Many) \o Lit(")") \o Spaces(0),
       <<>>, TRUE>>,
     <<Spaces(0) \o Lit("[") \o ClsLazy(Alphabet, 0, Many) \o Lit("]") \o Spaces(0),
       <<>>, TRUE>>,
     <<Lit(".") \o Digits(4, 4, 0) \o Lit("."), <<" ">>, TRUE>>,
     <<Lit("."), <<" ">>, TRUE>>,
     <<Lit("_"), <<" ">>, TRUE>>,
     <<Spaces(1), <<" ">>, TRUE>> >>

\* s.replace(p1, r1).replace(p2, r2)... from the k-th replacement of a list on
Replacements == [name |-> NamePatterns, movie |-> MoviePatterns]

ReplaceChain[list \in {"name", "movie"}, k \in Nat, s \in Str] ==
  LET p == Replacements[list]
  IN IF k > Len(p) THEN s
     ELSE ReplaceChain[list, k + 1, IF p[k][3] THEN ReplaceAll(p[k][1], s, p[k][2])
                                    ELSE Replace(p[k][1], s, p[k][2])]

\* the cleaned base name of one file, 154-177
CleanedName(filename) == Trim[ReplaceChain["name", 1, getBaseName(filename)]]

\* s.split(/\s+/).filter(w => w.length > 0)
RECURSIVE Words(_)
Words(s) ==
  The({LET ends == {k \in 1..Len(t) : t[k] = " "}
           n == IF ends = {} THEN Len(t) ELSE The({k \in ends : \A j \in ends : k <= j}) - 1
       IN IF t = <<>> THEN <<>> ELSE The({<<Take(t, m)>> \o Words(Drop(t, m)) : m \in {n}}) :
         t \in {Drop(s, SpaceRun[s])}})

\* words.join(' ')
RECURSIVE Join(_)
Join(words) ==
  The({IF w = <<>> THEN <<>>
       ELSE IF Len(w) = 1 THEN w[1]
       ELSE w[1] \o <<" ">> \o Join(Tail(w)) : w \in {words}})

\* Array.prototype.sort((a, b) => a.length - b.length), which is stable
RECURSIVE SortByLength(_)
SortByLength(names) ==
  The({IF n = <<>> THEN <<>>
       ELSE The({LET x == n[Len(n)]
                     keep == Cardinality({k \in 1..Len(sorted) : Len(sorted[k]) <= Len(x)})
                 IN SubSeq(sorted, 1, keep) \o <<x>> \o SubSeq(sorted, keep + 1, Len(sorted)) :
                   sorted \in {SortByLength(SubSeq(n, 1, Len(n) - 1))}}) :
         n \in {names}})

\* the longest common prefix of the cleaned names, 191-199
CommonPrefixOf(cleanedNames) ==
  LET shortest == cleanedNames[1]
      agree(i) == \A k \in 1..Len(cleanedNames) : cleanedNames[k][i] = shortest[i]
  IN Take(shortest, Cardinality({i \in 1..Len(shortest) : \A j \in 1..i : agree(j)}))

\* the leading words all the names share, given the words of each, 210-226
CommonWordsOf(words) ==
  LET agrees(i) == \A k \in 1..Len(words) : i <= Len(words[k]) /\ words[k][i] = words[1][i]
  IN Take(words[1], Cardinality({i \in 1..Len(words[1]) : \A j \in 1..i : agrees(j)}))

\* 186-243, given the cleaned names sorted by length
SeriesNameOf(cleanedNames) ==
  LET final(r) == Trim[Replace(Spaces(1) \o Digits(1, Many, 0) \o Spaces(0) \o EndOfInput,
                               Replace(Spaces(0) \o Lit("-") \o Spaces(0) \o EndOfInput,
                                       r, <<>>), <<>>)]
      wordResult == Trim[Join(CommonWordsOf(Map(Words, cleanedNames)))]
  IN The({The({final(IF Len(result) < 2 THEN cleanedNames[1] ELSE result) :
                 result \in {IF Len(prefixResult) < 3 THEN wordResult ELSE prefixResult}}) :
            prefixResult \in {Trim[Replace(Cls({"-", "_", " "}, 1, Many, 0) \o EndOfInput,
                                           CommonPrefixOf(cleanedNames), <<>>)]}})

\* extractSeriesNameFromFilenames, given the file names of the videos
extractSeriesNameFromFilenames(filenames) ==
  The({IF unsorted = <<>> THEN <<>>
       ELSE IF Len(unsorted) = 1 THEN unsorted[1]
       ELSE The({SeriesNameOf(cleanedNames) : cleanedNames \in {SortByLength(unsorted)}}) :
         unsorted \in {Map(CleanedName, filenames)}})

\* seriesName.replace(/[^a-zA-Z0-9\s]/g, '').replace(/\s+/g, '_')
\*   .toLowerCase().substring(0, 50), or the folder name with every
\* character that is no letter or digit replaced by "_", lower-cased;
\* then _partNN, else _sNN
PadStart2(n) == IF n < 10 THEN <<"0">> \o NatToStr[n] ELSE NatToStr[n]

\* the base taken from the folder's name whatever the series name is
generateSeriesId_fromFolder(seriesName, folderName, seasonNumber, partNumber) ==
  LET baseId ==
        ToLowerCase[ReplaceAll(Cls(Alphabet \ (Letters \cup DigitChars), 1, 1, 0),
                               folderName, <<"_">>)]
  IN IF IsSome(partNumber) THEN baseId \o Chars("_part") \o PadStart2(ValueOf(partNumber))
     ELSE IF IsSome(seasonNumber) THEN baseId \o Chars("_s") \o PadStart2(ValueOf(seasonNumber))
     ELSE baseId

generateSeriesId(seriesName, folderName, seasonNumber, partNumber) ==
  LET stripped ==
        ToLowerCase[ReplaceAll(Spaces(1),
                      ReplaceAll(Cls(Alphabet \ (Letters \cup DigitChars \cup Space), 1, 1, 0),
                                 seriesName, <<>>), <<"_">>)]
      fromName == The({IF Len(s) > 50 THEN Take(s, 50) ELSE s : s \in {stripped}})
      fromFolder ==
        ToLowerCase[ReplaceAll(Cls(Alphabet \ (Letters \cup DigitChars), 1, 1, 0),
                               folderName, <<"_">>)]
      baseId == IF Len(seriesName) >= 2 THEN fromName ELSE fromFolder
  IN IF IsSome(partNumber) THEN baseId \o Chars("_part") \o PadStart2(ValueOf(partNumber))
     ELSE IF IsSome(seasonNumber) THEN baseId \o Chars("_s") \o PadStart2(ValueOf(seasonNumber))
     ELSE baseId

cleanMovieTitle(filename) == Trim[ReplaceChain["movie", 1, getBaseName(filename)]]

-----------------------------------------------------------------------------
(* The library: names, units and what one scan can return *)

S_MyShow    == <<"M","y"," ","S","h","o","w">>
S_Show      == <<"S","h","o","w">>
S_86        == <<"8","6">>
S_EightySix == <<"E","i","g","h","t","y"," ","S","i","x">>
S_MyShowS2  == <<"M","y"," ","S","h","o","w"," ","(","S","e","a","s","o","n"," ","2",")">>

\* VideoFile, folderHandler.ts 307-316; the episode number is in tenths
VideoFile(path, season, episodeTenths) ==
  [filePath |-> path, seasonNumber |-> season, episodeNumber |-> episodeTenths]

RECURSIVE SeqsUpTo(_, _)
SeqsUpTo(S, n) ==
  IF n = 0 THEN {<<>>}
  ELSE LET shorter == SeqsUpTo(S, n - 1)
       IN shorter \cup {Append(q, x) : q \in {r \in shorter : Len(r) = n - 1}, x \in S}

-----------------------------------------------------------------------------
(* folderHandler.ts: the directory classifier *)

\* What readdir and stat report for one directory entry: its name, whether
\* stat succeeds, what it is, and for a directory whether readdir succeeds
\* and what it lists
File(name) == [name |-> Chars(name), kind |-> "file", statOk |-> TRUE, readdirOk |-> TRUE, entries |-> <<>>]
Dir(name, entries) == [name |-> Chars(name), kind |-> "dir", statOk |-> TRUE, readdirOk |-> TRUE, entries |-> entries]
\* stat(entry) rejects
NoStat(name) == [File(name) EXCEPT !.statOk = FALSE]
\* a directory whose readdir rejects
NoReaddir(name) == [Dir(name, <<>>) EXCEPT !.readdirOk = FALSE]
\* a root folder: its path, whether readdir(rootPath) succeeds, its entries
Root(path, readdirOk, entries) == [path |-> Chars(path), readdirOk |-> readdirOk, entries |-> entries]

\* path.join(folder, entry)
join(folderPath, entry) == folderPath \o <<"/">> \o entry

\* the names of the video files scanFolderForVideos pushes for a folder, in
\* readdir order (292-300; entries whose stat rejects are skipped, 326-329;
\* a readdir that rejects leaves the list empty, 352-356; readdir lists no
\* name twice, so the filter of 341-350 drops nothing)
VideoNames(dir) ==
  IF dir.readdirOk
  THEN Map(LAMBDA e : e.name,
           SelectSeq(dir.entries, LAMBDA e : e.statOk /\ e.kind = "file" /\ isVideoFile(e.name)))
  ELSE <<>>

\* scanFolderForVideos(folderPath, folderSeason).videos
scanFolderForVideos(folderPath, dir, folderSeason) ==
  LET seasonFromFolder == IF IsSome(folderSeason) THEN folderSeason
                          ELSE extractSeasonNumber(dir.name)
      video(entry, fromFolder) ==
        The({VideoFile(Text(join(folderPath, entry)),
                       IF IsSome(t.season) THEN t.season ELSE fromFolder,
                       t.episode) : t \in {extractSeasonAndEpisode(entry)}})
  IN The({Map(LAMBDA entry : video(entry, fromFolder), VideoNames(dir)) :
            fromFolder \in {seasonFromFolder}})

\* the files in the order readdir listed them
SortFiles_asListed(files) == files

\* videos.sort by season (null as 0), then by episode; the sort is stable
RECURSIVE SortFiles(_)
SortFiles(files) ==
  The({IF f = <<>> THEN <<>>
       ELSE The({LET x == f[Len(f)]
                     seasonOf(v) == IF IsSome(v.seasonNumber) THEN ValueOf(v.seasonNumber) ELSE 0
                     before(v) == \/ seasonOf(v) < seasonOf(x)
                                  \/ seasonOf(v) = seasonOf(x) /\ v.episodeNumber <= x.episodeNumber
                     keep == Cardinality({k \in 1..Len(sorted) : before(sorted[k])})
                 IN SubSeq(sorted, 1, keep) \o <<x>> \o SubSeq(sorted, keep + 1, Len(sorted)) :
                   sorted \in {SortFiles(SubSeq(f, 1, Len(f) - 1))}}) :
         f \in {files}})

\* results.push of 411-425 and 462-476: the series unit of a folder with videos
SeriesUnit(folderPath, dir, videos) ==
  The({[id |-> Text(generateSeriesId(seriesName, dir.name, seasonFromFolder, partFromFolder)),
        name |-> seriesName, type |-> "series", folderPath |-> Text(folderPath),
        files |-> SortFiles(videos),
        seasonNumber |-> seasonFromFolder, partNumber |-> partFromFolder] :
          seriesName \in {extractSeriesNameFromFilenames(VideoNames(dir))},
          seasonFromFolder \in {extractSeasonNumber(dir.name)},
          partFromFolder \in {extractPartNumber(dir.name)}})

\* results.push of 486-503: a video file of the root
MovieUnit(rootPath, entry) ==
  The({[id |-> Text(Chars("movie_")
                      \o ToLowerCase[ReplaceAll(Cls(Alphabet \ (Letters \cup DigitChars), 1, 1, 0),
                                                movieTitle, <<"_">>)]),
        name |-> movieTitle, type |-> "movie", folderPath |-> Text(rootPath),
        files |-> <<VideoFile(Text(join(rootPath, entry)), None,
                              extractSeasonAndEpisode(entry).episode)>>,
        seasonNumber |-> None, partNumber |-> None] :
          movieTitle \in {cleanMovieTitle(entry)}})

RECURSIVE Flatten(_)
Flatten(lists) ==
  The({IF l = <<>> THEN <<>> ELSE Head(l) \o Flatten(Tail(l)) : l \in {lists}})

\* a folder with subfolders is taken for a category whatever else it holds
UnitsOfEntry_exploring(rootPath, entry) ==
  LET entryPath == join(rootPath, entry.name)
      subDirs == SelectSeq(entry.entries, LAMBDA e : e.statOk /\ e.kind = "dir")
      ofSubDir(subDir) ==
        The({IF videos # <<>> THEN <<SeriesUnit(join(entryPath, subDir.name), subDir, videos)>>
             ELSE <<>> :
               videos \in {scanFolderForVideos(join(entryPath, subDir.name), subDir,
                                               extractSeasonNumber(subDir.name))}})
  IN IF ~entry.statOk THEN <<>>
     ELSE IF entry.kind = "dir"
     THEN IF ~entry.readdirOk THEN <<>>
          ELSE The({IF subDirs # <<>>
                    THEN Flatten(Map(ofSubDir, subDirs))
                    ELSE IF subVideos # <<>> THEN <<SeriesUnit(entryPath, entry, subVideos)>>
                    ELSE <<>> :
                      subVideos \in {scanFolderForVideos(entryPath, entry, None)}})
     ELSE IF entry.kind = "file" /\ isVideoFile(entry.name)
     THEN <<MovieUnit(rootPath, entry.name)>>
     ELSE <<>>

\* the body of the loop of scanDirectory for one entry of the root, 367-507:
\* the units it pushes; an entry whose stat or readdir rejects pushes none
UnitsOfEntry(rootPath, entry) ==
  LET entryPath == join(rootPath, entry.name)
      subDirs == SelectSeq(entry.entries, LAMBDA e : e.statOk /\ e.kind = "dir")
      ofSubDir(subDir) ==
        The({IF videos # <<>> THEN <<SeriesUnit(join(entryPath, subDir.name), subDir, videos)>>
             ELSE <<>> :
               videos \in {scanFolderForVideos(join(entryPath, subDir.name), subDir,
                                               extractSeasonNumber(subDir.name))}})
  IN IF ~entry.statOk THEN <<>>
     ELSE IF entry.kind = "dir"
     THEN IF ~entry.readdirOk THEN <<>>
          ELSE The({IF subDirs # <<>> /\ subVideos = <<>>
                    THEN Flatten(Map(ofSubDir, subDirs))
                    ELSE IF subVideos # <<>> THEN <<SeriesUnit(entryPath, entry, subVideos)>>
                    ELSE <<>> :
                      subVideos \in {scanFolderForVideos(entryPath, entry, None)}})
     ELSE IF entry.kind = "file" /\ isVideoFile(entry.name)
     THEN <<MovieUnit(rootPath, entry.name)>>
     ELSE <<>>

\* what a call returns to its caller: a list of units, or a rejection
Returned(units) == [ok |-> TRUE, units |-> units, error |-> ""]
Thrown(error) == [ok |-> FALSE, units |-> <<>>, error |-> error]

\* scanDirectory: readdir(rootPath) rejecting is logged and rethrown, 509-512
scanDirectory(root) ==
  IF ~root.readdirOk THEN Thrown("readdir")
  ELSE Returned(Flatten(Map(LAMBDA entry : UnitsOfEntry(root.path, entry), root.entries)))

\* folderHandler.scanFolder
scanFolder(root) ==
  IF root.path = <<>> THEN Thrown("Folder path is required") ELSE scanDirectory(root)

\* the loop without its try: the first root that rejects ends the call
scanMultipleFolders_rethrowing(roots) ==
  IF \E k \in 1..Len(roots) : ~roots[k].readdirOk THEN Thrown("readdir")
  ELSE Returned(Flatten(Map(LAMBDA root : scanDirectory(root).units, roots)))

\* folderHandler.scanMultipleFolders: a root whose scan rejects is logged
\* and left out, 531-536
scanMultipleFolders(roots) ==
  Returned(Flatten(Map(LAMBDA root : scanDirectory(root).units, roots)))

-----------------------------------------------------------------------------
(* Folder trees *)

\* the three files of the end-to-end scenario
ScenarioFiles == <<File("Episode 01.mkv"), File("Episode 02.mkv"), File("Episode 06.5.mkv")>>

\* root entries: series folders, category folders, loose files, and entries
\* that cannot be stat'ed or listed
D_86 == Dir("86", <<File("86 - 01.mkv")>>)
D_Series ==
  Dir("Series", <<Dir("My Show Season 2", <<File("My Show Episode 01.mkv"),
                                            File("My Show Episode 02.mkv"),
                                            File("My Show Episode 06.5.mkv")>>)>>)
D_Show == Dir("Show", <<File("Show - 01.mkv"), File("Show - 02.mkv")>>)
D_Scenario == Dir("Series", <<Dir("My Show", ScenarioFiles)>>)
D_Anime ==
  Dir("Anime", <<Dir("Empty", <<File("notes.txt")>>), NoReaddir("Locked"), NoStat("Gone"),
                 Dir("Show Part 2", <<NoStat("Show - 03.mkv"), File("Show - 04.mkv")>>)>>)
D_Mixed == Dir("Mixed", <<Dir("Extras", <<File("Extra - 01.mkv")>>), File("Mixed - 02.mkv"), File("Mixed - 01.mkv")>>)
D_Docs == Dir("Docs", <<File("readme.txt")>>)
\* a second folder of the same show: episodes out of order, one with its
\* season in the name, one episode in two containers
D_ShowBD ==
  Dir("Show BD", <<File("Show Episode 07.mkv"), File("Show Episode 06.5.mkv"),
                   File("Show S01E02.mkv"), File("Show Episode 06.mkv"),
                   File("Show Episode 06.mp4")>>)
EntryPool ==
  {D_86, D_Series, D_Show, D_Scenario, D_Anime, D_Mixed, D_Docs, D_ShowBD,
   File("Movie.2018.mkv"), File("readme.txt"), NoStat("Broken"), NoReaddir("Locked")}

\* the longest listing of a root considered
MaxRootEntries == 2

\* the listings of a root: up to MaxRootEntries entries of different names
Listings ==
  {es \in SeqsUpTo(EntryPool, MaxRootEntries) :
     \A a, b \in 1..Len(es) : a # b => es[a].name # es[b].name}

LibraryRoot == Root("/lib", TRUE, <<D_86, D_Series, D_Show>>)

\* the roots scanFolder is called with
Roots ==
  {Root("/lib", TRUE, es) : es \in Listings} \cup {LibraryRoot}
    \cup {Root("/gone", FALSE, <<>>), Root("", TRUE, <<>>)}

\* the folder lists scanMultipleFolders is called with
RootLists ==
  SeqsUpTo({Root("/gone", FALSE, <<>>), Root("/lib", TRUE, <<D_Show>>),
            Root("/lib2", TRUE, <<D_86, NoStat("Broken")>>)}, 2)

\* ScannedMedia items as scanDirectory returns them (folderHandler.ts 411-425,
\* 462-476): every unit has at least one file, files sorted by season, episode.
U_MyShowS2 ==
  [id |-> "my_show_s02", name |-> S_MyShow, type |-> "series",
   folderPath |-> "/lib/Series/My Show Season 2",
   files |-> << VideoFile("/lib/Series/My Show Season 2/My Show Episode 01.mkv", Some(2), 10),
                VideoFile("/lib/Series/My Show Season 2/My Show Episode 02.mkv", Some(2), 20),
                VideoFile("/lib/Series/My Show Season 2/My Show Episode 06.5.mkv", Some(2), 65) >>,
   seasonNumber |-> Some(2), partNumber |-> None]

U_86 ==
  [id |-> "86", name |-> S_86, type |-> "series",
   folderPath |-> "/lib/86",
   files |-> << VideoFile("/lib/86/86 - 01.mkv", None, 10) >>,
   seasonNumber |-> None, partNumber |-> None]

U_Show ==
  [id |-> "show", name |-> S_Show, type |-> "series",
   folderPath |-> "/lib/Show",
   files |-> << VideoFile("/lib/Show/Show - 01.mkv", None, 10),
                VideoFile("/lib/Show/Show - 02.mkv", None, 20) >>,
   seasonNumber |-> None, partNumber |-> None]

\* the hand-written units are what the classifier returns for the library
LibraryIsScanned == scanDirectory(LibraryRoot).units = <<U_86, U_MyShowS2, U_Show>>

Units == {U_MyShowS2, U_86, U_Show}

\* the longest list of units one scan returns
MaxUnits == 2

\* the units of the library in the order readdir lists their folders
Library == <<U_86, U_MyShowS2, U_Show>>

\* what folderHandler.scanFolder can return for a readable root: the units of
\* some of the folders, in readdir order
ScannedMediaLists ==
  {m \in SeqsUpTo(Units, MaxUnits) :
     \E pos \in [1..Len(m) -> 1..Len(Library)] :
        /\ \A a \in 1..Len(m) : m[a] = Library[pos[a]]
        /\ \A a, b \in 1..Len(m) : a < b => pos[a] < pos[b]}

\* fileEpisodes: media.files.map(f => ({...})), main.ts 458-466, 659-667, 712-720
FileEpisodesOf(unit) == unit.files

\* canonicalEpisodeCount, main.ts 480-484
RECURSIVE CountIntegers(_)
CountIntegers(files) ==
  IF files = <<>> THEN 0
  ELSE (IF Head(files).episodeNumber % 10 = 0 THEN 1 ELSE 0) + CountIntegers(Tail(files))

canonicalEpisodeCount(unit) == CountIntegers(unit.files)


-----------------------------------------------------------------------------
(* Provider candidates and the handlers' pure parts *)

Providers == {"mal", "anilist"}

St_FinishedAiring == <<"F","i","n","i","s","h","e","d"," ","A","i","r","i","n","g">>
St_NotYetAired    == <<"N","o","t"," ","y","e","t"," ","a","i","r","e","d">>
St_FINISHED       == <<"F","I","N","I","S","H","E","D">>
St_NOT_YET_RELEASED ==
  <<"N","O","T","_","Y","E","T","_","R","E","L","E","A","S","E","D">>
St_CANCELLED      == <<"C","A","N","C","E","L","L","E","D">>
St_HIATUS         == <<"H","I","A","T","U","S">>

ToUpperChar(c) ==
  IF IsLowerAlpha(c) THEN UpperChars[CHOOSE k \in 1..26 : LowerChars[k] = c] ELSE c
ToUpperCase(s) == [k \in 1..Len(s) |-> ToUpperChar(s[k])]

\* the release statuses each catalogue reports (Jikan anime status strings,
\* AniList MediaStatus values)
StatusesOf(prov) ==
  IF prov = "mal" THEN {St_FinishedAiring, St_NotYetAired}
  ELSE {St_FINISHED, St_NOT_YET_RELEASED, St_CANCELLED, St_HIATUS}

\* the largest episode count a candidate reports
MaxEpisodes == 2

EpisodeCounts == {None} \cup {Some(n) : n \in 1..MaxEpisodes}

\* JikanAnime / AniListMedia, reduced to the fields the handlers read
Candidates(prov, titles, posters) ==
  [title : titles, episodes : EpisodeCounts, status : StatusesOf(prov), poster : posters]

\* malHandler.ts isReleased
NotYetWord   == <<"n","o","t"," ","y","e","t">>
NotAiredWord == <<"n","o","t"," ","a","i","r","e","d">>
isReleasedMal(anime) ==
  LET status == ToLowerCase[anime.status]
  IN ~(Includes(status, NotYetWord) \/ Includes(status, NotAiredWord))

\* anilistHandler.ts isReleased
isReleasedAniList(media) ==
  LET status == ToUpperCase(media.status)
  IN ~(status = St_NOT_YET_RELEASED \/ status = St_CANCELLED \/ status = St_HIATUS)

isReleased(prov, c) ==
  IF prov = "mal" THEN isReleasedMal(c) ELSE isReleasedAniList(c)

\* the primary test asking for more episodes than the folder has
PrimaryTest_strict(prov, c, folderEpisodeCount) ==
  /\ isReleased(prov, c)
  /\ IsSome(folderEpisodeCount) =>
       (IsSome(c.episodes) /\ ValueOf(c.episodes) > ValueOf(folderEpisodeCount))

\* the test of the primary loop; folderEpisodeCount is None when undefined
PrimaryTest(prov, c, folderEpisodeCount) ==
  /\ isReleased(prov, c)
  /\ IsSome(folderEpisodeCount) =>
       (IsSome(c.episodes) /\ ValueOf(c.episodes) >= ValueOf(folderEpisodeCount))

\* for (i = 0; i < searchResults.length; i++) { if (!test) continue; accept }
\* the index of the candidate the loop accepts, counting from k; 0 when none
RECURSIVE PrimaryIndexFrom(_, _, _, _)
PrimaryIndexFrom(prov, results, folderEpisodeCount, k) ==
  IF k > Len(results) THEN 0
  ELSE IF PrimaryTest(prov, results[k], folderEpisodeCount) THEN k
       ELSE PrimaryIndexFrom(prov, results, folderEpisodeCount, k + 1)

PrimaryIndex(prov, results, folderEpisodeCount) ==
  PrimaryIndexFrom(prov, results, folderEpisodeCount, 1)

\* the test of the fallback loop: if (anime.episodes === null)
FallbackTest(prov, c) == c.episodes = None

RECURSIVE FallbackIndexFrom(_, _, _)
FallbackIndexFrom(prov, results, k) ==
  IF k > Len(results) THEN 0
  ELSE IF FallbackTest(prov, results[k]) THEN k
       ELSE FallbackIndexFrom(prov, results, k + 1)

\* if (!foundValidResult && folderEpisodeCount !== undefined) { ... }
FallbackIndex(prov, results, folderEpisodeCount) ==
  IF IsSome(folderEpisodeCount) THEN FallbackIndexFrom(prov, results, 1) ELSE 0

\* one EpisodeMetadata entry; generic is TRUE when its title is `Episode ${i}`
EpisodeEntry(i, season, generic) ==
  [episodeNumber |-> i * 10, seasonNumber |-> season, generic |-> generic]

\* getEpisodes, the request succeeded and listed episodes 1..fetched:
\* episodeCount = totalEpisodes || fetchedEpisodeMap.size || 0
EpisodesFetched(totalEpisodes, fetched, season) ==
  LET episodeCount ==
        IF IsSome(totalEpisodes) /\ ValueOf(totalEpisodes) # 0
        THEN ValueOf(totalEpisodes) ELSE fetched
  IN [i \in 1..episodeCount |-> EpisodeEntry(i, season, i > fetched)]

\* getEpisodes, the request failed with an error that is no rate limit
EpisodesPlaceholders(totalEpisodes, season) ==
  IF IsSome(totalEpisodes) /\ ValueOf(totalEpisodes) # 0
  THEN [i \in 1..ValueOf(totalEpisodes) |-> EpisodeEntry(i, season, TRUE)]
  ELSE <<>>

\* formatMetadata of either handler: if (seasonNumber) the title gets the suffix
formatMetadata(prov, c, episodes, season) ==
  [title |-> IF IsSome(season) /\ ValueOf(season) # 0
             THEN WithSeasonSuffix(c.title, ValueOf(season)) ELSE c.title,
   poster |-> c.poster,
   banner |-> NULL,
   genres |-> <<"Action">>,
   episodes |-> episodes,
   totalEpisodes |-> c.episodes]


-----------------------------------------------------------------------------
(* State *)

VARIABLES
  \* the persisted metadata store (metadata.json): seriesId -> record
  store,
  \* 'scan-and-fetch-metadata': position, locals and what it has done so far
  pc, media, idx, existingMetadata, newMetadata, fetchedMetadata,
  queried, path, scanStatus, opsLeft,
  \* how often the current scan has read and has written the store
  storeReads, storeWrites,
  \* one metadata fetch for one name (main.ts 259-294, 488-521) with the
  \* provider handler it is in: caller, arguments, current provider, position
  hCaller, hArgs, hProv, hpc,
  \* the handler's locals: retry counter, candidates, the accepted one
  hRetries, hResults, hSel, hVariation, hNoSeason,
  \* what the current request loop has done: outcomes of its requests, waits
  hOutcomes, hWaits, hEpOutcomes, hEpWaits,
  \* the return value of the current handler call, and the calls completed
  hRet, hLog,
  \* one call of the directory classifier or of one of its functions, and
  \* what it returned
  cCall, cResult,
  \* one call of thumbnailHandler.generateThumbnail: the call, the
  \* timestamps whose thumbnail file exists, the calls of extractFrame it
  \* led to, and what it returned
  tCall, tCached, tCalls, tResult,
  \* one call of imageCacheHandler.cacheImages: the call, the persisted
  \* cache index (cache-index.json), the image files on disk, the start of
  \* the current batch, the cacheImage calls of the batch, the results map,
  \* and whether the call has returned
  iCall, iIndex, iFiles, iFrom, iTasks, iResults, iReturned

scanVars == <<store, pc, media, idx, existingMetadata, newMetadata, fetchedMetadata,
              queried, path, scanStatus, opsLeft, storeReads, storeWrites>>
handlerVars == <<hCaller, hArgs, hProv, hpc, hRetries, hResults, hSel, hVariation,
                 hNoSeason, hOutcomes, hWaits, hEpOutcomes, hEpWaits, hRet, hLog>>
classVars == <<cCall, cResult>>
thumbVars == <<tCall, tCached, tCalls, tResult>>
imageVars == <<iCall, iIndex, iFiles, iFrom, iTasks, iResults, iReturned>>
mediaVars == <<thumbVars, imageVars>>
vars == <<scanVars, handlerVars, classVars, mediaVars>>

-----------------------------------------------------------------------------
(* searchAndFetchMetadata of malHandler and anilistHandler, step by step,    *)
(* under the caller's provider sequence                                     *)

\* const maxRetries = 3 (malHandler.ts 104, 289, 319; anilistHandler.ts 241, ...)
maxRetries == 3

\* a wait of two seconds per retry
delaySeconds_doubled(retries) == retries * 2

\* const delaySeconds = retries * 1
delaySeconds(retries) == retries * 1

\* the longest candidate list a search returns in the model
MaxResults == 2

\* the largest folderEpisodeCount the scan passes in the model
MaxFolderCount == 2

\* the most episodes an episode request lists
MaxFetched == 1

HandlerTitles == {S_MyShow}
HandlerPosters == {"https://img/poster.jpg"}

ResultLists(prov) == SeqsUpTo(Candidates(prov, HandlerTitles, HandlerPosters), MaxResults)

\* the arguments each caller passes: fetch-metadata passes (searchName,
\* seasonNumber) only; the scan passes season, part and canonicalEpisodeCount
HandlerArgs(caller) ==
  IF caller = "fetch-metadata"
  THEN [is86 : BOOLEAN, season : {None, Some(2)}, part : {None},
        folderEpisodeCount : {None}]
  ELSE [is86 : BOOLEAN, season : {None, Some(2)}, part : {None, Some(2)},
        folderEpisodeCount : {Some(n) : n \in 0..MaxFolderCount}]

\* searchVariations.slice(1): only malHandler, only for the name "86"
ExtraVariations(prov, args) == IF prov = "mal" /\ args.is86 THEN 3 ELSE 0

\* (partNumber && partNumber > 1) || (seasonNumber && seasonNumber > 1)
SeasonOrPartSearched(args) ==
  \/ IsSome(args.part) /\ ValueOf(args.part) > 1
  \/ IsSome(args.season) /\ ValueOf(args.season) > 1

NoSel == [index |-> 0, pass |-> "none", cand |-> NULL]

HandlerCallInit(prov) ==
  /\ hProv = prov
  /\ hpc = "search"
  /\ hRetries = 0
  /\ hResults = <<>>
  /\ hSel = NoSel
  /\ hVariation = 0
  /\ hNoSeason = FALSE
  /\ hOutcomes = <<>>
  /\ hWaits = <<>>
  /\ hEpOutcomes = <<>>
  /\ hEpWaits = <<>>
  /\ hRet = None

HandlerInit ==
  /\ hCaller \in {"fetch-metadata", "scan"}
  /\ hArgs \in HandlerArgs(hCaller)
  /\ HandlerCallInit("mal")
  /\ hLog = <<>>

HandlerIdle ==
  /\ hCaller = "none"
  /\ hArgs = [is86 |-> FALSE, season |-> None, part |-> None, folderEpisodeCount |-> None]
  /\ hProv = "none"
  /\ hpc = "done"
  /\ hRetries = 0
  /\ hResults = <<>>
  /\ hSel = NoSel
  /\ hVariation = 0
  /\ hNoSeason = FALSE
  /\ hOutcomes = <<>>
  /\ hWaits = <<>>
  /\ hEpOutcomes = <<>>
  /\ hEpWaits = <<>>
  /\ hRet = None
  /\ hLog = <<>>

InSearch == hpc \in {"search", "variation", "noSeason"}

\* a new searchAnime / searchAnimeMultiple call: let retries = 0
NewSearchCall(nextpc, variation) ==
  /\ hpc' = nextpc
  /\ hVariation' = variation
  /\ hRetries' = 0
  /\ hOutcomes' = <<>>
  /\ hWaits' = <<>>
  /\ hResults' = <<>>
  /\ UNCHANGED <<hSel, hNoSeason, hEpOutcomes, hEpWaits, hRet>>

\* the handler returns ret: Some(a formatMetadata record) or None (null)
Return(ret) ==
  /\ hpc' = "returned"
  /\ hRet' = ret
  /\ UNCHANGED <<hRetries, hVariation, hWaits, hEpWaits>>

\* the two loops over the candidates of `results`
Select(results, noSeason) ==
  LET p == PrimaryIndex(hProv, results, hArgs.folderEpisodeCount)
      f == FallbackIndex(hProv, results, hArgs.folderEpisodeCount)
  IN /\ hOutcomes' = Append(hOutcomes, "ok")
     /\ hNoSeason' = noSeason
     /\ UNCHANGED hEpOutcomes
     /\ hResults' = results
     /\ IF p > 0 \/ f > 0
        THEN /\ hpc' = "selected"
             /\ hSel' = IF p > 0
                        THEN [index |-> p, pass |-> "primary", cand |-> results[p]]
                        ELSE [index |-> f, pass |-> "fallback", cand |-> results[f]]
             /\ hRetries' = 0
             /\ UNCHANGED <<hVariation, hWaits, hEpWaits, hRet>>
        ELSE Return(None) /\ UNCHANGED hSel

\* after the search with the season/part query and its variations:
\* if (searchResults.length === 0 && (part > 1 || season > 1)) search the bare name
AfterVariations(results) ==
  IF results = <<>> /\ SeasonOrPartSearched(hArgs)
  THEN NewSearchCall("noSeason", hVariation)
  ELSE Select(results, FALSE)

\* what follows a search that returned `results`, by the search it was
AfterSearch(results) ==
  IF hpc = "noSeason" THEN Select(results, TRUE)
  ELSE IF results = <<>> /\ hVariation < ExtraVariations(hProv, hArgs)
       THEN NewSearchCall("variation", hVariation + 1)
       ELSE AfterVariations(results)

\* the request of searchAnime / searchAnimeMultiple answers with a list
SearchOk ==
  /\ InSearch
  /\ \E results \in ResultLists(hProv) : AfterSearch(results)
  /\ UNCHANGED <<hCaller, hArgs, hProv, hLog>>
  /\ UNCHANGED <<scanVars, classVars, mediaVars>>

\* the request fails with a rate limit (HTTP 429): retry after retries * 1
\* seconds while retries < maxRetries, else throw, which the catch of
\* searchAndFetchMetadata turns into return null
SearchRateLimited ==
  /\ InSearch
  /\ hOutcomes' = Append(hOutcomes, "rate")
  /\ IF hRetries < maxRetries
     THEN /\ hRetries' = hRetries + 1
          /\ hWaits' = Append(hWaits, delaySeconds(hRetries + 1))
          /\ UNCHANGED <<hpc, hResults, hSel, hVariation, hNoSeason, hEpOutcomes,
                         hEpWaits, hRet>>
     ELSE Return(None) /\ UNCHANGED <<hResults, hSel, hNoSeason, hEpOutcomes>>
  /\ UNCHANGED <<hCaller, hArgs, hProv, hLog>>
  /\ UNCHANGED <<scanVars, classVars, mediaVars>>

\* the request fails with any other error: thrown at once, caught by
\* searchAndFetchMetadata, return null
SearchError ==
  /\ InSearch
  /\ hOutcomes' = Append(hOutcomes, "error")
  /\ Return(None)
  /\ UNCHANGED <<hResults, hSel, hNoSeason, hEpOutcomes>>
  /\ UNCHANGED <<hCaller, hArgs, hProv, hLog>>
  /\ UNCHANGED <<scanVars, classVars, mediaVars>>


InEpisodes == hpc \in {"selected", "episodes"}

\* seasonNumber ?? null, as getEpisodes stores it in each entry
EpisodeSeason == hArgs.season

\* getEpisodes answers: the episodes the request listed, filled up to the count
EpisodesOk ==
  /\ InEpisodes
  /\ \E fetched \in 0..MaxFetched :
       Return(Some(formatMetadata(hProv, hSel.cand,
                     EpisodesFetched(hSel.cand.episodes, fetched, EpisodeSeason),
                     hArgs.season)))
  /\ hEpOutcomes' = Append(hEpOutcomes, "ok")
  /\ hResults' = <<>>
  /\ UNCHANGED <<hSel, hNoSeason, hOutcomes>>
  /\ UNCHANGED <<hCaller, hArgs, hProv, hLog>>
  /\ UNCHANGED <<scanVars, classVars, mediaVars>>

\* the episode request fails with an error that is no rate limit: getEpisodes
\* catches it and returns `Episode i` entries when totalEpisodes is known
EpisodesError ==
  /\ InEpisodes
  /\ Return(Some(formatMetadata(hProv, hSel.cand,
                   EpisodesPlaceholders(hSel.cand.episodes, EpisodeSeason),
                   hArgs.season)))
  /\ hEpOutcomes' = Append(hEpOutcomes, "error")
  /\ hResults' = <<>>
  /\ UNCHANGED <<hSel, hNoSeason, hOutcomes>>
  /\ UNCHANGED <<hCaller, hArgs, hProv, hLog>>
  /\ UNCHANGED <<scanVars, classVars, mediaVars>>

\* malHandler.ts 251, 260: the retry without season/part calls getEpisodes bare;
\* every other acceptance path wraps it in while (retries <= maxRetries)
HasEpisodeRetryLoop == ~(hProv = "mal" /\ hNoSeason)

\* the episode request is rate limited: getEpisodes rethrows; the loop around
\* it retries while retries < maxRetries, else the error reaches the catch of
\* searchAndFetchMetadata, which returns null
EpisodesRateLimited ==
  /\ InEpisodes
  /\ hEpOutcomes' = Append(hEpOutcomes, "rate")
  /\ IF HasEpisodeRetryLoop /\ hRetries < maxRetries
     THEN /\ hpc' = "episodes"
          /\ hRetries' = hRetries + 1
          /\ hEpWaits' = Append(hEpWaits, delaySeconds(hRetries + 1))
          /\ UNCHANGED <<hVariation, hWaits, hRet>>
     ELSE Return(None)
  /\ hResults' = <<>>
  /\ UNCHANGED <<hSel, hNoSeason, hOutcomes>>
  /\ UNCHANGED <<hCaller, hArgs, hProv, hLog>>
  /\ UNCHANGED <<scanVars, classVars, mediaVars>>

\* the provider sequence of the caller (main.ts 264-293 and 493-521): MAL,
\* then, if (!fetchedMetadata), AniList
\* the second provider queried whatever the first returned
NextProviderWanted_always == hProv = "mal"

\* if (malData) return ..., main.ts 266-268; if (!fetchedMetadata), main.ts 507
NextProviderWanted == hRet = None /\ hProv = "mal"

CallerContinues ==
  /\ hpc = "returned"
  /\ hLog' = Append(hLog, [provider |-> hProv, ret |-> hRet])
  /\ IF NextProviderWanted
     THEN /\ hProv' = "anilist"
          /\ hpc' = "search"
          /\ hRetries' = 0
          /\ hResults' = <<>>
          /\ hSel' = NoSel
          /\ hVariation' = 0
          /\ hNoSeason' = FALSE
          /\ hOutcomes' = <<>>
          /\ hWaits' = <<>>
          /\ hEpOutcomes' = <<>>
          /\ hEpWaits' = <<>>
          /\ hRet' = None
     ELSE /\ hpc' = "done"
          /\ hResults' = <<>>
          /\ UNCHANGED <<hProv, hRetries, hSel, hVariation, hNoSeason,
                         hOutcomes, hWaits, hEpOutcomes, hEpWaits, hRet>>
  /\ UNCHANGED <<hCaller, hArgs>>
  /\ UNCHANGED <<scanVars, classVars, mediaVars>>

HandlerNext ==
  \/ SearchOk
  \/ SearchRateLimited
  \/ SearchError
  \/ EpisodesOk
  \/ EpisodesError
  \/ EpisodesRateLimited
  \/ CallerContinues


-----------------------------------------------------------------------------
(* The metadata store and the IPC operations that write it *)

EmptyStore == [id \in {} |-> NULL]

\* { ...m, [id]: rec }
Put(m, id, rec) == [k \in DOMAIN m \cup {id} |-> IF k = id THEN rec ELSE m[k]]

\* delete m[id]
Remove(m, id) == [k \in DOMAIN m \ {id} |-> m[k]]

\* saveMetadata writing what it is given, nothing filtered out
saveMetadata_unfiltered(metadata) == metadata

\* metadataHandler.saveMetadata: entries with 0 fileEpisodes are not written
\* (a record without the field has fileEpisodes <<>> here: data.fileEpisodes || [])
saveMetadata(metadata) ==
  LET kept == {k \in DOMAIN metadata : Len(metadata[k].fileEpisodes) > 0}
  IN [k \in kept |-> metadata[k]]

\* metadataHandler.deleteSeriesMetadata: load, delete, write as loaded
deleteSeriesMetadata(current, seriesId) == Remove(current, seriesId)

\* the local path cacheImages reports for a downloaded poster
PosterPath == "/cache/images/poster.jpg"

SeriesRecord(id, title, poster, posterLocal, genres, episodes, fileEpisodes, folderPath, type, source) ==
  [seriesId |-> id, title |-> title, description |-> "",
   poster |-> poster, posterLocal |-> posterLocal,
   banner |-> NULL, bannerLocal |-> NULL, genres |-> genres,
   episodes |-> episodes, fileEpisodes |-> fileEpisodes,
   folderPath |-> folderPath, type |-> type, source |-> source]

\* what the renderer passes to 'save-metadata': a whole store
SaveInputs ==
  { [id \in {"86"} |->
       SeriesRecord("86", S_86, "https://img/poster.jpg", PosterPath, <<"Action">>,
                    <<>>, FileEpisodesOf(U_86), U_86.folderPath, "series", "mal")],
    [id \in {"my_show_s02"} |->
       SeriesRecord("my_show_s02", S_EightySix, "https://img/poster.jpg", PosterPath,
                    <<"Action">>, <<>>, FileEpisodesOf(U_MyShowS2),
                    U_MyShowS2.folderPath, "series", "anilist")],
    [id \in {"my_show_s02"} |->
       SeriesRecord("my_show_s02", S_MyShow, "https://img/poster.jpg", PosterPath,
                    <<"Drama">>, <<>>, FileEpisodesOf(U_MyShowS2),
                    "/old/My Show Season 2", "series", "mal")],
    [id \in {"gone"} |->
       SeriesRecord("gone", S_Show, NULL, NULL, <<>>, <<>>, <<>>,
                    "/lib/Gone", "series", "local")] }


-----------------------------------------------------------------------------
(* 'scan-and-fetch-metadata', main.ts 373-766 *)

\* how many IPC operations on the store one run starts
MaxOps == 2

\* what searchAndFetchMetadata can return to the scan for a unit: null, or the
\* formatted candidate its loops accept among the catalogue's answer
ScanTitleFor(unit) == IF unit.id = "86" THEN S_EightySix ELSE S_MyShow

ScanCandidates(prov, unit) ==
  {c \in Candidates(prov, {ScanTitleFor(unit)}, {"https://img/poster.jpg"}) :
     c.episodes = Some(MaxEpisodes)}

ProviderReturns(prov, unit) ==
  {None} \cup
  { Some(formatMetadata(prov, c,
           EpisodesFetched(c.episodes, 0, unit.seasonNumber), unit.seasonNumber)) :
      c \in {d \in ScanCandidates(prov, unit) :
               PrimaryIndex(prov, <<d>>, Some(canonicalEpisodeCount(unit))) = 1} }

\* main.ts 444-451 and 642-650: the title gets " (Season N)" unless it has one
FinalTitle(title, unit) ==
  IF IsSome(unit.seasonNumber) /\ ~HasSeasonParen(title)
  THEN WithSeasonSuffix(title, ValueOf(unit.seasonNumber)) ELSE title

\* main.ts 693-700
LocalTitle(unit) ==
  IF IsSome(unit.seasonNumber) /\ ~HasSeasonWord(unit.name)
  THEN WithSeasonSuffix(unit.name, ValueOf(unit.seasonNumber)) ELSE unit.name

\* main.ts 408: existing?.title && existing?.posterLocal
HasTitleAndPoster(existing) == existing.title # <<>> /\ existing.posterLocal # NULL

\* the cached record taken as it is
CacheHitRecord_asStored(existing, unit) == existing

\* main.ts 454-469
CacheHitRecord(existing, unit) ==
  [existing EXCEPT !.seriesId = unit.id,
                   !.title = FinalTitle(existing.title, unit),
                   !.fileEpisodes = FileEpisodesOf(unit),
                   !.folderPath = unit.folderPath,
                   !.type = unit.type]

\* no entry is added for the files the provider does not list
DecimalEntries_none(files, processed) == <<>>

\* main.ts 613-640: the files with a fractional episode number that the
\* provider's list does not hold get an entry of their own
RECURSIVE DecimalEntries(_, _)
DecimalEntries(files, processed) ==
  IF files = <<>> THEN <<>>
  ELSE LET f == Head(files)
       IN (IF f.episodeNumber % 10 # 0 /\ f.episodeNumber \notin processed
           THEN <<[episodeNumber |-> f.episodeNumber, seasonNumber |-> f.seasonNumber,
                   generic |-> TRUE]>>
           ELSE <<>>) \o DecimalEntries(Tail(files), processed)

EpisodesWithLocalThumbs(md, unit) ==
  md.episodes \o
  DecimalEntries(unit.files, {md.episodes[k].episodeNumber : k \in 1..Len(md.episodes)})

\* main.ts 652-670
FetchedRecord(md, source, posterLocal, unit) ==
  SeriesRecord(unit.id, FinalTitle(md.title, unit), md.poster, posterLocal, md.genres,
               EpisodesWithLocalThumbs(md, unit), FileEpisodesOf(unit),
               unit.folderPath, unit.type, source)

\* an entry for the files with a whole episode number only
LocalEpisodes_integers(unit) ==
  LET RECURSIVE whole(_)
      whole(files) ==
        IF files = <<>> THEN <<>>
        ELSE (IF Head(files).episodeNumber % 10 = 0
              THEN <<[episodeNumber |-> Head(files).episodeNumber,
                      seasonNumber |-> Head(files).seasonNumber, generic |-> TRUE]>>
              ELSE <<>>) \o whole(Tail(files))
  IN whole(unit.files)

\* main.ts 677-691
LocalEpisodes(unit) ==
  [k \in 1..Len(unit.files) |->
     [episodeNumber |-> unit.files[k].episodeNumber,
      seasonNumber |-> unit.files[k].seasonNumber, generic |-> TRUE]]

\* main.ts 702-724
LocalRecord(unit) ==
  SeriesRecord(unit.id, LocalTitle(unit), NULL, NULL, <<>>, LocalEpisodes(unit),
               FileEpisodesOf(unit), unit.folderPath, unit.type, "local")

\* only the records of this scan are kept
cleanedMetadata_scanned(existing, new) ==
  LET kept == {k \in DOMAIN new : Len(new[k].fileEpisodes) > 0}
  IN [k \in kept |-> new[k]]

\* main.ts 733-752: merge, then drop the entries with 0 fileEpisodes
cleanedMetadata(existing, new) ==
  LET merged == [k \in DOMAIN existing \cup DOMAIN new |->
                   IF k \in DOMAIN new THEN new[k] ELSE existing[k]]
      kept == {k \in DOMAIN merged : Len(merged[k].fileEpisodes) > 0}
  IN [k \in kept |-> merged[k]]

ScanIdle ==
  /\ pc = "idle"
  /\ media = <<>>
  /\ idx = 0
  /\ existingMetadata = EmptyStore
  /\ newMetadata = EmptyStore
  /\ fetchedMetadata = None
  /\ queried = <<>>
  /\ path = <<>>
  /\ scanStatus = "none"
  /\ storeReads = 0
  /\ storeWrites = 0

ScanInit ==
  /\ store = EmptyStore
  /\ ScanIdle
  /\ opsLeft = MaxOps

\* the renderer invokes 'scan-and-fetch-metadata': scanFolder is called
ScanInvoke ==
  /\ pc = "idle"
  /\ opsLeft > 0
  /\ opsLeft' = opsLeft - 1
  /\ pc' = "scanFolder"
  /\ scanStatus' = "running"
  /\ media' = <<>>
  /\ idx' = 0
  /\ existingMetadata' = EmptyStore
  /\ newMetadata' = EmptyStore
  /\ fetchedMetadata' = None
  /\ queried' = <<>>
  /\ path' = <<>>
  /\ UNCHANGED store
  /\ storeReads' = 0
  /\ storeWrites' = 0
  /\ UNCHANGED <<handlerVars, classVars, mediaVars>>

\* a fatal failure that writes the (empty) result before rethrowing
ScanFolderThrows_writing ==
  /\ pc = "scanFolder"
  /\ pc' = "idle"
  /\ scanStatus' = "error"
  /\ store' = newMetadata
  /\ UNCHANGED <<media, idx, existingMetadata, newMetadata, fetchedMetadata,
                 queried, path, opsLeft>>
  /\ storeWrites' = storeWrites + 1
  /\ UNCHANGED storeReads
  /\ UNCHANGED <<handlerVars, classVars, mediaVars>>

\* readdir(rootPath) fails: scanDirectory rethrows (folderHandler.ts 509-512),
\* the handler's catch logs and rethrows (main.ts 762-765)
ScanFolderThrows ==
  /\ pc = "scanFolder"
  /\ pc' = "idle"
  /\ scanStatus' = "error"
  /\ UNCHANGED <<store, media, idx, existingMetadata, newMetadata, fetchedMetadata,
                 queried, path, opsLeft>>
  /\ UNCHANGED <<storeReads, storeWrites>>
  /\ UNCHANGED <<handlerVars, classVars, mediaVars>>

\* scanFolder returns the units of the root
ScanFolderReturns ==
  /\ pc = "scanFolder"
  /\ \E m \in ScannedMediaLists : media' = m
  /\ pc' = "load"
  /\ UNCHANGED <<store, idx, existingMetadata, newMetadata, fetchedMetadata,
                 queried, path, scanStatus, opsLeft>>
  /\ UNCHANGED <<storeReads, storeWrites>>
  /\ UNCHANGED <<handlerVars, classVars, mediaVars>>

\* main.ts 383-387: the one read of the store
LoadMetadata ==
  /\ pc = "load"
  /\ existingMetadata' = store
  /\ newMetadata' = EmptyStore
  /\ idx' = 1
  /\ pc' = "unit"
  /\ UNCHANGED <<store, media, fetchedMetadata, queried, path, scanStatus,
                 opsLeft>>
  /\ storeReads' = storeReads + 1
  /\ UNCHANGED storeWrites
  /\ UNCHANGED <<handlerVars, classVars, mediaVars>>


\* main.ts 399-404: the existing record of the unit's id is carried over
StartedMetadata(unit) ==
  IF unit.id \in DOMAIN existingMetadata
  THEN Put(newMetadata, unit.id, existingMetadata[unit.id])
  ELSE newMetadata

\* main.ts 408: if (existing?.title && existing?.posterLocal)
CacheChecked(unit) ==
  /\ unit.id \in DOMAIN existingMetadata
  /\ HasTitleAndPoster(existingMetadata[unit.id])

\* main.ts 423-432, 441
CacheMatches(unit) ==
  /\ CacheChecked(unit)
  /\ titlesMatch(existingMetadata[unit.id].title, unit.name)

\* a cached title that does not match is dropped whatever the name's length
AfterMismatch_always(unit) ==
  IF CacheChecked(unit) THEN Remove(StartedMetadata(unit), unit.id)
  ELSE StartedMetadata(unit)

\* main.ts 434-440: a cached title that does not match is dropped
AfterMismatch(unit) ==
  IF CacheChecked(unit) /\ Len(normalizedOf[unit.name]) >= 3
  THEN Remove(StartedMetadata(unit), unit.id)
  ELSE StartedMetadata(unit)

\* main.ts 391-476 for media[idx], up to the first provider call; or the end
\* of the loop. Every unit scanFolder returns has files, so the skip of main.ts
\* 393-396 is never taken.
CheckUnit ==
  /\ pc = "unit"
  /\ \/ /\ idx > Len(media)
        /\ pc' = "write"
        /\ UNCHANGED <<idx, newMetadata, queried, path>>
     \/ /\ idx <= Len(media)
        /\ CacheMatches(media[idx])
        \* Using cached metadata: continue
        /\ newMetadata' = Put(StartedMetadata(media[idx]), media[idx].id,
                              CacheHitRecord(existingMetadata[media[idx].id], media[idx]))
        /\ idx' = idx + 1
        /\ pc' = "unit"
        /\ queried' = <<>>
        /\ path' = <<"Scanned", "CacheCheck", "CacheHit", "Merged">>
     \/ /\ idx <= Len(media)
        /\ ~CacheMatches(media[idx])
        /\ newMetadata' = AfterMismatch(media[idx])
        /\ idx' = idx
        /\ pc' = "mal"
        /\ queried' = <<>>
        /\ path' = <<"Scanned", "CacheCheck", "CacheMiss">>
  /\ fetchedMetadata' = None
  /\ UNCHANGED <<store, media, existingMetadata, scanStatus, opsLeft>>
  /\ UNCHANGED <<storeReads, storeWrites>>
  /\ UNCHANGED <<handlerVars, classVars, mediaVars>>

\* the first provider's miss taken for the last one's
QueryMal_giving_up ==
  /\ pc = "mal"
  /\ \E r \in ProviderReturns("mal", media[idx]) :
       /\ queried' = Append(queried, [provider |-> "mal", found |-> IsSome(r)])
       /\ IF IsSome(r)
          THEN /\ fetchedMetadata' = Some([md |-> ValueOf(r), source |-> "mal"])
               /\ pc' = "fetched"
               /\ path' = path \o <<"ProviderQuery", "Accepted", "EpisodeFetch">>
          ELSE /\ fetchedMetadata' = None
               /\ pc' = "local"
               /\ path' = path \o <<"ProviderQuery", "AllProvidersExhausted">>
  /\ UNCHANGED <<store, media, idx, existingMetadata, newMetadata, scanStatus,
                 opsLeft>>
  /\ UNCHANGED <<storeReads, storeWrites>>
  /\ UNCHANGED <<handlerVars, classVars, mediaVars>>

\* main.ts 493-505: malHandler.searchAndFetchMetadata(name, season, part, count)
QueryMal ==
  /\ pc = "mal"
  /\ \E r \in ProviderReturns("mal", media[idx]) :
       /\ queried' = Append(queried, [provider |-> "mal", found |-> IsSome(r)])
       /\ IF IsSome(r)
          THEN /\ fetchedMetadata' = Some([md |-> ValueOf(r), source |-> "mal"])
               /\ pc' = "fetched"
               /\ path' = path \o <<"ProviderQuery", "Accepted", "EpisodeFetch">>
          ELSE /\ fetchedMetadata' = None
               /\ pc' = "anilist"
               /\ path' = path \o <<"ProviderQuery">>
  /\ UNCHANGED <<store, media, idx, existingMetadata, newMetadata, scanStatus,
                 opsLeft>>
  /\ UNCHANGED <<storeReads, storeWrites>>
  /\ UNCHANGED <<handlerVars, classVars, mediaVars>>

\* main.ts 507-521: if (!fetchedMetadata) anilistHandler.searchAndFetchMetadata(...)
QueryAniList ==
  /\ pc = "anilist"
  /\ fetchedMetadata = None
  /\ \E r \in ProviderReturns("anilist", media[idx]) :
       /\ queried' = Append(queried, [provider |-> "anilist", found |-> IsSome(r)])
       /\ IF IsSome(r)
          THEN /\ fetchedMetadata' = Some([md |-> ValueOf(r), source |-> "anilist"])
               /\ pc' = "fetched"
               /\ path' = path \o <<"Accepted", "EpisodeFetch">>
          ELSE /\ fetchedMetadata' = None
               /\ pc' = "local"
               /\ path' = path \o <<"AllProvidersExhausted">>
  /\ UNCHANGED <<store, media, idx, existingMetadata, newMetadata, scanStatus,
                 opsLeft>>
  /\ UNCHANGED <<storeReads, storeWrites>>
  /\ UNCHANGED <<handlerVars, classVars, mediaVars>>

\* main.ts 523-671, 727-728: cache the images (a download may fail: the local
\* path is then null), build the record, wait 500 ms, next unit
MergeFetched ==
  /\ pc = "fetched"
  /\ LET unit == media[idx]
         f == ValueOf(fetchedMetadata)
     IN \E posterLocal \in (IF f.md.poster = NULL THEN {NULL} ELSE {NULL, PosterPath}) :
          newMetadata' = Put(newMetadata, unit.id,
                             FetchedRecord(f.md, f.source, posterLocal, unit))
  /\ idx' = idx + 1
  /\ pc' = "unit"
  /\ path' = Append(path, "Merged")
  /\ UNCHANGED <<store, media, existingMetadata, fetchedMetadata, queried, scanStatus,
                 opsLeft>>
  /\ UNCHANGED <<storeReads, storeWrites>>
  /\ UNCHANGED <<handlerVars, classVars, mediaVars>>

\* the record is written to the store as soon as it is built
LocalOnly_saving ==
  /\ pc = "local"
  /\ LET unit == media[idx]
     IN /\ newMetadata' = Put(newMetadata, unit.id, LocalRecord(unit))
        /\ store' = saveMetadata(Put(store, unit.id, LocalRecord(unit)))
  /\ storeWrites' = storeWrites + 1
  /\ idx' = idx + 1
  /\ pc' = "unit"
  /\ path' = Append(path, "LocalOnly")
  /\ UNCHANGED <<media, existingMetadata, fetchedMetadata, queried, scanStatus,
                 opsLeft, storeReads>>
  /\ UNCHANGED <<handlerVars, classVars, mediaVars>>

\* main.ts 672-728: no provider matched, the record is built from the files
LocalOnly ==
  /\ pc = "local"
  /\ LET unit == media[idx]
     IN newMetadata' = Put(newMetadata, unit.id, LocalRecord(unit))
  /\ idx' = idx + 1
  /\ pc' = "unit"
  /\ path' = Append(path, "LocalOnly")
  /\ UNCHANGED <<store, media, existingMetadata, fetchedMetadata, queried, scanStatus,
                 opsLeft>>
  /\ UNCHANGED <<storeReads, storeWrites>>
  /\ UNCHANGED <<handlerVars, classVars, mediaVars>>

\* main.ts 731-761: merge, clean, saveMetadata(cleanedMetadata), return success
WriteStore ==
  /\ pc = "write"
  /\ store' = saveMetadata(cleanedMetadata(existingMetadata, newMetadata))
  /\ pc' = "idle"
  /\ scanStatus' = "success"
  /\ UNCHANGED <<media, idx, existingMetadata, newMetadata, fetchedMetadata, queried,
                 path, opsLeft>>
  /\ storeWrites' = storeWrites + 1
  /\ UNCHANGED storeReads
  /\ UNCHANGED <<handlerVars, classVars, mediaVars>>

\* the steps of one scan after its invocation
ScanStep ==
  \/ ScanFolderThrows
  \/ ScanFolderReturns
  \/ LoadMetadata
  \/ CheckUnit
  \/ QueryMal
  \/ QueryAniList
  \/ MergeFetched
  \/ LocalOnly
  \/ WriteStore

ScanLocals == <<pc, media, idx, existingMetadata, newMetadata, fetchedMetadata,
                queried, path, scanStatus, storeReads, storeWrites>>

\* 'save-metadata', main.ts 314-321
SaveMetadataOp ==
  /\ opsLeft > 0
  /\ opsLeft' = opsLeft - 1
  /\ \E m \in SaveInputs : store' = saveMetadata(m)
  /\ UNCHANGED ScanLocals
  /\ UNCHANGED <<handlerVars, classVars, mediaVars>>

\* 'clear-metadata', main.ts 332-339
ClearMetadataOp ==
  /\ opsLeft > 0
  /\ opsLeft' = opsLeft - 1
  /\ store' = saveMetadata(EmptyStore)
  /\ UNCHANGED ScanLocals
  /\ UNCHANGED <<handlerVars, classVars, mediaVars>>

\* 'delete-series', main.ts 341-369
DeleteSeriesOp ==
  /\ opsLeft > 0
  /\ opsLeft' = opsLeft - 1
  /\ \E seriesId \in DOMAIN store \cup {"gone"} :
       store' = deleteSeriesMetadata(store, seriesId)
  /\ UNCHANGED ScanLocals
  /\ UNCHANGED <<handlerVars, classVars, mediaVars>>

ScanNext ==
  \/ ScanInvoke
  \/ ScanStep
  \/ SaveMetadataOp
  \/ ClearMetadataOp
  \/ DeleteSeriesOp

-----------------------------------------------------------------------------
(* Calls of the classifier and its functions *)

\* file names: what precedes the episode marker, the marker, what follows
NameHeads == {"", "Show ", "Show_", "Show.", "Show.2019.", "[2020] Show ", "Show 2019 ", "Show - 2020 - "}
NameMarkers == {"S01E02", "s1e3", "S2E10", "Episode 03", "Episode 6.5", "Ep.12", "E07",
                "- 05", "[10]", "5", "1999", "Name"}
NameTails == {".mkv", " 720p.mkv", "v2.mkv", ".mp4"}
Filenames == {Chars(h \o m \o t) : h \in NameHeads, m \in NameMarkers, t \in NameTails}

\* the arguments generateSeriesId is called with
SeriesNames == {Chars(""), Chars("8"), Chars("86"), Chars("Show"), Chars("My Show")}
FolderNames == {Chars("Show Season 2"), Chars("Show (different folder label)"), Chars("86")}
MaxSeason == 2
Numbers == {None} \cup {Some(n) : n \in 1..MaxSeason}

Calls ==
  [fn : {"extractSeasonAndEpisode"}, filename : Filenames]
    \cup [fn : {"generateSeriesId"}, seriesName : SeriesNames, folderName : FolderNames,
          seasonNumber : Numbers, partNumber : Numbers]
    \cup [fn : {"scanFolder"}, root : Roots]
    \cup [fn : {"scanMultipleFolders"}, roots : RootLists]

NoCall == [fn |-> "none"]
\* no result yet; a result r is held as Some(r)
NotReturned == None

ClassifierIdle == cCall = NoCall /\ cResult = NotReturned

ClassifierInit == cCall \in Calls /\ cResult = NotReturned

\* extractSeasonAndEpisode(filename)
ExtractSeasonAndEpisode ==
  /\ cCall.fn = "extractSeasonAndEpisode"
  /\ cResult = NotReturned
  /\ cResult' = Some(extractSeasonAndEpisode(cCall.filename))
  /\ UNCHANGED <<cCall, scanVars, handlerVars, mediaVars>>

\* generateSeriesId(seriesName, folderName, seasonNumber, partNumber)
GenerateSeriesId ==
  /\ cCall.fn = "generateSeriesId"
  /\ cResult = NotReturned
  /\ cResult' = Some(generateSeriesId(cCall.seriesName, cCall.folderName,
                                  cCall.seasonNumber, cCall.partNumber))
  /\ UNCHANGED <<cCall, scanVars, handlerVars, mediaVars>>

\* folderHandler.scanFolder(folderPath)
ScanFolder ==
  /\ cCall.fn = "scanFolder"
  /\ cResult = NotReturned
  /\ cResult' = Some(scanFolder(cCall.root))
  /\ UNCHANGED <<cCall, scanVars, handlerVars, mediaVars>>

\* folderHandler.scanMultipleFolders(folderPaths)
ScanMultipleFolders ==
  /\ cCall.fn = "scanMultipleFolders"
  /\ cResult = NotReturned
  /\ cResult' = Some(scanMultipleFolders(cCall.roots))
  /\ UNCHANGED <<cCall, scanVars, handlerVars, mediaVars>>

ClassifierNext ==
  \/ ExtractSeasonAndEpisode
  \/ GenerateSeriesId
  \/ ScanFolder
  \/ ScanMultipleFolders

-----------------------------------------------------------------------------
(* thumbnailHandler.generateThumbnail and extractFrame, malHandler.ts 530-614 *)

\* the most calls of extractFrame one generateThumbnail is followed through
MaxCalls == 3

\* the timestamps generateThumbnail is called with; main.ts passes 120
Timestamps == {120, 60, 10}
VideoPaths == {"", "/lib/Show/Show - 01.mkv"}

\* join(getThumbnailCachePath(), generateThumbnailFilename(videoPath, timestamp))
thumbnailPath(timestamp) ==
  IF timestamp = 120 THEN "/thumbnails/at120.jpg"
  ELSE IF timestamp = 60 THEN "/thumbnails/at60.jpg" ELSE "/thumbnails/at10.jpg"

\* the close handler of a failed extraction retries whatever the timestamp
RetryWanted_always(timestamp) == timestamp >= 10

\* malHandler.ts 576: if (timestamp > 10)
RetryWanted(timestamp) == timestamp > 10

\* one call of extractFrame: its timestamp, its ffmpeg process, its 30 s
\* timer, its promise ("pending", "rejected", or the value it resolved with)
FrameCall(timestamp, proc, timer, promise) ==
  [timestamp |-> timestamp, proc |-> proc, timer |-> timer, promise |-> promise]

\* extractFrame(videoPath, timestamp) up to its return, 530-548: it rejects
\* when the thumbnail directory cannot be made, returns the path of a
\* thumbnail that exists, and otherwise spawns ffmpeg and arms the timer
NewCall(timestamp, dirOk, cached) ==
  IF ~dirOk THEN FrameCall(timestamp, "none", FALSE, "rejected")
  ELSE IF timestamp \in cached THEN FrameCall(timestamp, "none", FALSE, thumbnailPath(timestamp))
  ELSE FrameCall(timestamp, "running", TRUE, "pending")

\* resolve(v) in call i: a promise that is settled stays as it is; the call
\* that awaits call i in its close handler (577-578) resolves with the same
\* value
RECURSIVE Settle(_, _, _)
Settle(calls, i, v) ==
  IF i = 0 \/ calls[i].promise # "pending" THEN calls
  ELSE Settle([calls EXCEPT ![i].promise = v], i - 1, v)

\* what generateThumbnail returns (605-614): the value of the first call's
\* promise, null when that call rejected
ResultOf(calls) ==
  IF calls[1].promise = "pending" THEN None
  ELSE IF calls[1].promise = "rejected" THEN Some(NULL)
  ELSE Some(calls[1].promise)

ThumbnailIdle == tCall = NoCall /\ tCached = {} /\ tCalls = <<>> /\ tResult = None

ThumbnailInit ==
  /\ tCall \in [fn : {"generateThumbnail"}, videoPath : VideoPaths, timestamp : Timestamps]
  /\ tCached \in SUBSET Timestamps
  /\ tCalls = <<>>
  /\ tResult = None

\* generateThumbnail(videoPath, timestamp), 605-608
GenerateThumbnail ==
  /\ tCall # NoCall /\ tCalls = <<>> /\ tResult = None
  /\ IF tCall.videoPath = ""
     THEN tCalls' = <<>> /\ tResult' = Some(NULL)
     ELSE \E dirOk \in BOOLEAN :
            /\ tCalls' = <<NewCall(tCall.timestamp, dirOk, tCached)>>
            /\ tResult' = ResultOf(tCalls')
  /\ UNCHANGED <<tCall, tCached>>
  /\ UNCHANGED <<scanVars, handlerVars, classVars, imageVars>>

\* 'close' with code 0 and the thumbnail written, 568-572
CloseOk ==
  /\ \E i \in 1..Len(tCalls) :
       /\ tCalls[i].proc = "running"
       /\ tCached' = tCached \cup {tCalls[i].timestamp}
       /\ tCalls' = Settle([tCalls EXCEPT ![i].proc = "closedOk"], i,
                           thumbnailPath(tCalls[i].timestamp))
  /\ tResult' = ResultOf(tCalls')
  /\ UNCHANGED tCall
  /\ UNCHANGED <<scanVars, handlerVars, classVars, imageVars>>

\* 'close' otherwise (a failed, killed or unstartable process, or no file
\* written), 573-585: the 10 s retry, or null
CloseFailed ==
  /\ \E i \in 1..Len(tCalls) :
       /\ tCalls[i].proc \in {"running", "errored", "killed"}
       /\ LET closed == [tCalls EXCEPT ![i].proc = "closedFailed"]
          IN IF RetryWanted(tCalls[i].timestamp) /\ Len(tCalls) < MaxCalls
             THEN \E dirOk \in BOOLEAN :
                    LET retry == NewCall(10, dirOk, tCached)
                    IN tCalls' = IF retry.promise \in {"pending", "rejected"}
                                 THEN Append(closed, retry)
                                 ELSE Append(Settle(closed, i, retry.promise), retry)
             ELSE tCalls' = Settle(closed, i, NULL)
  /\ tResult' = ResultOf(tCalls')
  /\ UNCHANGED <<tCall, tCached>>
  /\ UNCHANGED <<scanVars, handlerVars, classVars, imageVars>>

\* 'error' (ffmpeg could not be started or killed), 588-591; 'close' follows
\* it or not
ProcessError ==
  /\ \E i \in 1..Len(tCalls) :
       /\ tCalls[i].proc = "running"
       /\ \E after \in {"errored", "gone"} :
            tCalls' = Settle([tCalls EXCEPT ![i].proc = after], i, NULL)
  /\ tResult' = ResultOf(tCalls')
  /\ UNCHANGED <<tCall, tCached>>
  /\ UNCHANGED <<scanVars, handlerVars, classVars, imageVars>>

\* the timer of 593-597 fires: ffmpeg.kill(), resolve(null)
Timeout ==
  /\ \E i \in 1..Len(tCalls) :
       /\ tCalls[i].timer
       /\ tCalls' = Settle([tCalls EXCEPT ![i].timer = FALSE,
                                          ![i].proc = IF @ = "running" THEN "killed" ELSE @],
                           i, NULL)
  /\ tResult' = ResultOf(tCalls')
  /\ UNCHANGED <<tCall, tCached>>
  /\ UNCHANGED <<scanVars, handlerVars, classVars, imageVars>>

ThumbnailNext ==
  \/ GenerateThumbnail
  \/ CloseOk
  \/ CloseFailed
  \/ ProcessError
  \/ Timeout

-----------------------------------------------------------------------------
(* imageCacheHandler.cacheImage and cacheImages (src/unnamed/part_002, 93-180) *)

\* 159: const batchSize = 5
batchSize == 5

\* the longest list of URLs cacheImages is called with
MaxUrls == 6

ImageUrls == <<"https://img/1.jpg", "https://img/2.jpg", "https://img/3.jpg",
               "https://img/4.jpg", "https://img/5.jpg", "https://img/6.jpg",
               "https://img/7.jpg">>

\* the lists cacheImages is called with: null for a missing image
UrlLists ==
  {<<>>, <<NULL, ImageUrls[1]>>, <<ImageUrls[1], NULL, ImageUrls[2]>>,
   SubSeq(ImageUrls, 1, MaxUrls)}

\* join(getImageCachePath(), generateCacheFilename(url))
localPathOf(url) == "/image-cache/" \o url

EmptyIndex == [url \in {} |-> NULL]

\* urls.filter(url => !!url)
validUrls(urls) == SelectSeq(urls, LAMBDA url : url # NULL)

\* one call of cacheImage in flight: where it is, the index it loaded, and
\* what it returned
ImageTask(url, at, index, result) ==
  [url |-> url, at |-> at, index |-> index, result |-> result]

ImageIdle ==
  /\ iCall = NoCall /\ iIndex = EmptyIndex /\ iFiles = {} /\ iFrom = 0
  /\ iTasks = <<>> /\ iResults = EmptyIndex /\ iReturned = FALSE

\* a call of cacheImages; the index holds nothing, or the first image, whose
\* file exists or was removed
ImageInit ==
  /\ iCall \in [fn : {"cacheImages"}, urls : UrlLists]
  /\ iIndex \in {EmptyIndex, [url \in {ImageUrls[1]} |-> localPathOf(url)]}
  /\ iFiles \in {{}, {localPathOf(ImageUrls[1])}}
  /\ iFrom = 1
  /\ iTasks = <<>>
  /\ iResults = EmptyIndex
  /\ iReturned = FALSE

InFlight == SelectSeq(iTasks, LAMBDA t : t.at # "returned")

\* 159-166: batch = validUrls.slice(i, i + batchSize), one cacheImage each
StartBatch ==
  /\ iCall # NoCall /\ ~iReturned /\ iTasks = <<>>
  /\ iFrom <= Len(validUrls(iCall.urls))
  /\ LET to == IF iFrom + batchSize - 1 < Len(validUrls(iCall.urls))
               THEN iFrom + batchSize - 1 ELSE Len(validUrls(iCall.urls))
     IN iTasks' = Map(LAMBDA url : ImageTask(url, "called", EmptyIndex, NULL),
                      SubSeq(validUrls(iCall.urls), iFrom, to))
  /\ UNCHANGED <<iCall, iIndex, iFiles, iFrom, iResults, iReturned>>
  /\ UNCHANGED <<scanVars, handlerVars, classVars, thumbVars>>

\* 97-110: load the index; an entry whose file exists is returned, an entry
\* whose file is gone is deleted from the loaded index
LoadIndex ==
  /\ \E k \in 1..Len(iTasks) :
       /\ iTasks[k].at = "called"
       /\ LET url == iTasks[k].url
          IN iTasks' =
               [iTasks EXCEPT ![k] =
                  IF url \in DOMAIN iIndex /\ iIndex[url] \in iFiles
                  THEN ImageTask(url, "returned", iIndex, iIndex[url])
                  ELSE ImageTask(url, "fetching", Remove(iIndex, url), NULL)]
  /\ UNCHANGED <<iCall, iIndex, iFiles, iFrom, iResults, iReturned>>
  /\ UNCHANGED <<scanVars, handlerVars, classVars, thumbVars>>

\* 113-130: the download; the response is ok and the file is written
Downloaded ==
  /\ \E k \in 1..Len(iTasks) :
       /\ iTasks[k].at = "fetching"
       /\ iFiles' = iFiles \cup {localPathOf(iTasks[k].url)}
       /\ iTasks' = [iTasks EXCEPT ![k].at = "saving"]
  /\ UNCHANGED <<iCall, iIndex, iFrom, iResults, iReturned>>
  /\ UNCHANGED <<scanVars, handlerVars, classVars, thumbVars>>

\* 120-123, 142-145: the response is not ok, or fetch or writeFile rejects
DownloadFailed ==
  /\ \E k \in 1..Len(iTasks) :
       /\ iTasks[k].at = "fetching"
       /\ iTasks' = [iTasks EXCEPT ![k].at = "returned", ![k].result = NULL]
  /\ UNCHANGED <<iCall, iIndex, iFiles, iFrom, iResults, iReturned>>
  /\ UNCHANGED <<scanVars, handlerVars, classVars, thumbVars>>

\* 132-141: the entry is added to the index that was loaded, that index is
\* written as the whole file, the local path is returned
SaveIndex ==
  /\ \E k \in 1..Len(iTasks) :
       /\ iTasks[k].at = "saving"
       /\ LET url == iTasks[k].url
          IN /\ iIndex' = Put(iTasks[k].index, url, localPathOf(url))
             /\ iTasks' = [iTasks EXCEPT ![k].at = "returned",
                                         ![k].index = iIndex',
                                         ![k].result = localPathOf(url)]
  /\ UNCHANGED <<iCall, iFiles, iFrom, iResults, iReturned>>
  /\ UNCHANGED <<scanVars, handlerVars, classVars, thumbVars>>

RECURSIVE SetAll(_, _)
SetAll(results, tasks) ==
  IF tasks = <<>> THEN results
  ELSE SetAll(Put(results, Head(tasks).url, Head(tasks).result), Tail(tasks))

\* 161-170: Promise.all resolved; results.set(url, localPath) for the batch
CollectBatch ==
  /\ iTasks # <<>>
  /\ InFlight = <<>>
  /\ iResults' = SetAll(iResults, iTasks)
  /\ iFrom' = iFrom + Len(iTasks)
  /\ iTasks' = <<>>
  /\ UNCHANGED <<iCall, iIndex, iFiles, iReturned>>
  /\ UNCHANGED <<scanVars, handlerVars, classVars, thumbVars>>

\* 179: return results
ReturnResults ==
  /\ iCall # NoCall /\ ~iReturned /\ iTasks = <<>>
  /\ iFrom > Len(validUrls(iCall.urls))
  /\ iReturned' = TRUE
  /\ UNCHANGED <<iCall, iIndex, iFiles, iFrom, iTasks, iResults>>
  /\ UNCHANGED <<scanVars, handlerVars, classVars, thumbVars>>

ImageNext ==
  \/ StartBatch
  \/ LoadIndex
  \/ Downloaded
  \/ DownloadFailed
  \/ SaveIndex
  \/ CollectBatch
  \/ ReturnResults

-----------------------------------------------------------------------------
(* Specifications *)

\* the store and its operations, with one scan in flight at a time
Init == ScanInit /\ HandlerIdle /\ ClassifierIdle /\ ThumbnailIdle /\ ImageIdle
Next == ScanNext
Spec == Init /\ [][Next]_vars

\* the same, every started scan step being taken: a provider, filesystem or
\* image call of a scan in flight returns
FairSpec == Spec /\ WF_vars(ScanStep)

\* one metadata fetch for one name, inside the handlers
HInit == HandlerInit /\ ScanInit /\ ClassifierIdle /\ ThumbnailIdle /\ ImageIdle
HNext == HandlerNext
HandlerSpec == HInit /\ [][HNext]_vars

\* one call of the classifier, of the tokenizer or of the identifier function
CInit == ClassifierInit /\ ScanInit /\ HandlerIdle /\ ThumbnailIdle /\ ImageIdle
CNext == ClassifierNext
ClassifierSpec == CInit /\ [][CNext]_vars

\* one call of generateThumbnail: the call runs, and a timer that is armed
\* fires; whether and when a process closes is left open
TInit == ThumbnailInit /\ ScanInit /\ HandlerIdle /\ ClassifierIdle /\ ImageIdle
TNext == ThumbnailNext
ThumbnailSpec == TInit /\ [][TNext]_vars /\ WF_vars(GenerateThumbnail) /\ WF_vars(Timeout)

\* one call of cacheImages
IInit == ImageInit /\ ScanInit /\ HandlerIdle /\ ClassifierIdle /\ ThumbnailIdle
INext == ImageNext
ImageSpec == IInit /\ [][INext]_vars

-----------------------------------------------------------------------------
(* The store *)

\* C1: whatever scans, saves, clears and deletes have run from the empty
\* store, every record of the persisted store has at least one fileEpisodes
\* entry.
C1_StoredRecordsHaveFiles ==
  \A id \in DOMAIN store : Len(store[id].fileEpisodes) >= 1

\* a scan has written a store with records after another operation ran
C1_Witness ==
  /\ opsLeft = 0
  /\ pc = "idle"
  /\ scanStatus = "success"
  /\ store # EmptyStore

\* C2: the steps of a scan whose scanFolder throws (its invocation and the
\* failure itself) leave the persisted store exactly as it was.
C2_FatalScanLeavesStore ==
  [][ ( \/ pc = "idle" /\ pc' = "scanFolder"
        \/ pc = "scanFolder" /\ scanStatus' = "error" )
      => store' = store ]_vars

\* a scan failed fatally while the store held records
C2_Witness ==
  /\ scanStatus = "error"
  /\ pc = "idle"
  /\ store # EmptyStore

-----------------------------------------------------------------------------
(* The per-unit reconciliation of a scan *)

C10_CacheHitIff ==
  LET accepts(existing, unit) ==
        /\ existing.title # <<>>
        /\ existing.posterLocal # NULL
        /\ LET a == normalizedOf[existing.title]
               b == normalizedOf[unit.name]
           IN a = b \/ (Len(b) >= 5 /\ (Includes(a, b) \/ Includes(b, a)))
      decidedHit  == pc \in {"unit", "write"} /\ Len(path) = 4
      decidedMiss == pc = "mal"
  IN /\ decidedHit =>
          /\ path[3] = "CacheHit"
          /\ media[idx - 1].id \in DOMAIN existingMetadata
          /\ accepts(existingMetadata[media[idx - 1].id], media[idx - 1])
     /\ decidedMiss =>
          /\ path[3] = "CacheMiss"
          /\ media[idx].id \in DOMAIN existingMetadata =>
                ~accepts(existingMetadata[media[idx].id], media[idx])
     /\ titlesMatch(S_MyShowS2, U_MyShowS2.name)
     /\ normalizedOf[S_MyShowS2] = <<"m","y"," ","s","h","o","w">>

\* the unit "My Show" of season 2 was taken from the record a former scan
\* stored under the title "My Show (Season 2)"
C10_Witness ==
  /\ pc = "unit"
  /\ path = <<"Scanned", "CacheCheck", "CacheHit", "Merged">>
  /\ media[idx - 1] = U_MyShowS2
  /\ existingMetadata[U_MyShowS2.id].title = S_MyShowS2

-----------------------------------------------------------------------------
(* One metadata fetch: the provider sequence and the handlers *)

\* C3: the providers a fetch queries are a prefix of one fixed sequence
\* (MyAnimeList, then AniList), and a provider is queried only when every
\* provider queried before it returned no match: after an accepted match no
\* further provider is queried.
C3_FixedOrderUntilMatch ==
  LET priority == <<"mal", "anilist">>
      asked == [k \in 1..Len(hLog) |-> hLog[k].provider]
                 \o (IF hpc = "done" THEN <<>> ELSE <<hProv>>)
  IN /\ Len(asked) <= Len(priority)
     /\ \A k \in 1..Len(asked) : asked[k] = priority[k]
     /\ \A k \in 1..Len(hLog) : k < Len(asked) => hLog[k].ret = None

\* AniList was queried after MyAnimeList returned no match, and matched
C3_Witness ==
  /\ hpc = "done"
  /\ Len(hLog) = 2
  /\ hLog[1].ret = None
  /\ hLog[2].provider = "anilist"
  /\ hLog[2].ret # None

\* C4: a fetch, of 'fetch-metadata' or of the scan, queries AniList first,
\* then MyAnimeList, then TVDB.
C4_AniListThenMalThenTvdb ==
  /\ Len(hLog) >= 1 => hLog[1].provider = "anilist"
  /\ Len(hLog) >= 2 => hLog[2].provider = "mal"
  /\ (hpc = "done" /\ \A k \in 1..Len(hLog) : hLog[k].ret = None) =>
       (Len(hLog) = 3 /\ hLog[3].provider = "tvdb")

\* C6: with a folder episode count c, the candidate a handler accepts is the
\* first released one whose known episode count is at least c; when there is
\* none, the first one whose episode count is unknown; else none. No accepted
\* candidate has a known episode count below c.
C6_CandidateSelection ==
  LET c == ValueOf(hArgs.folderEpisodeCount)
      results == hResults
      good(k) == /\ isReleased(hProv, results[k])
                 /\ IsSome(results[k].episodes)
                 /\ ValueOf(results[k].episodes) >= c
      unknown(k) == results[k].episodes = None
      first(k, P(_)) == P(k) /\ \A j \in 1..(k - 1) : ~P(j)
      decided == \/ hpc = "selected"
                 \/ /\ hpc = "returned"
                    /\ hSel.pass = "none"
                    /\ hOutcomes # <<>>
                    /\ hOutcomes[Len(hOutcomes)] = "ok"
  IN IsSome(hArgs.folderEpisodeCount) =>
       /\ decided =>
            IF \E k \in 1..Len(results) : good(k)
            THEN /\ hSel.index \in 1..Len(results)
                 /\ first(hSel.index, good)
                 /\ hSel.cand = results[hSel.index]
            ELSE IF \E k \in 1..Len(results) : unknown(k)
                 THEN /\ hSel.index \in 1..Len(results)
                      /\ first(hSel.index, unknown)
                      /\ hSel.cand = results[hSel.index]
                 ELSE hSel.pass = "none" /\ hpc = "returned" /\ hRet = None
       /\ (hSel.pass # "none" /\ IsSome(hSel.cand.episodes)) =>
            ValueOf(hSel.cand.episodes) >= c

\* the first candidate had too few episodes, the second, of unknown episode
\* count, was accepted by the fallback
C6_Witness ==
  /\ hpc = "selected"
  /\ IsSome(hArgs.folderEpisodeCount)
  /\ hSel.pass = "fallback"
  /\ hSel.index = 2
  /\ IsSome(hResults[1].episodes)

\* C7: no accepted candidate has a status of not yet released, cancelled or
\* on hiatus, whichever loop accepted it.
C7_NoUnreleasedAccepted ==
  hSel.pass # "none" =>
    hSel.cand.status \notin {St_NotYetAired, St_NOT_YET_RELEASED, St_CANCELLED, St_HIATUS}

C9_AcceptedNeverDiscarded ==
  (hpc \in {"returned", "done"} /\ hSel.pass # "none") =>
    /\ IsSome(hRet)
    /\ hEpOutcomes[Len(hEpOutcomes)] # "ok" =>
         \A k \in 1..Len(ValueOf(hRet).episodes) : ValueOf(hRet).episodes[k].generic


-----------------------------------------------------------------------------
(* The local-only record *)

\* the unit whose record the scan wrote last
LastUnit == media[idx - 1]

\* the scan has just built the local-only record of LastUnit
LocalOnlyDone == path # <<>> /\ path[Len(path)] = "LocalOnly"

\* C11 as stated: when no provider returned a match the scan goes on and the
\* unit's record has source 'local', the unit's derived series name as its
\* title, no poster or banner, no genres and one episode entry per local
\* file, in file order.
C11_LocalTitleIsDerivedName ==
  LocalOnlyDone =>
    /\ scanStatus # "error"
    /\ LastUnit.id \in DOMAIN newMetadata
    /\ LET rec == newMetadata[LastUnit.id]
       IN /\ rec.source = "local"
          /\ rec.title = LastUnit.name
          /\ rec.poster = NULL /\ rec.banner = NULL
          /\ rec.genres = <<>>
          /\ Len(rec.episodes) = Len(LastUnit.files)
          /\ \A k \in 1..Len(LastUnit.files) :
               rec.episodes[k].episodeNumber = LastUnit.files[k].episodeNumber

\* C11, amended: as above, but the title is the derived series name followed
\* by " (Season N)" when the unit has season N and the name holds no
\* "Season <digits>".
C11_LocalRecord ==
  LocalOnlyDone =>
    /\ scanStatus # "error"
    /\ \A k \in 1..Len(queried) : ~queried[k].found
    /\ LastUnit.id \in DOMAIN newMetadata
    /\ LET rec == newMetadata[LastUnit.id]
           name == LastUnit.name
           suffixed == name \o <<" ", "(", "S", "e", "a", "s", "o", "n", " ">>
                            \o NatToStr[ValueOf(LastUnit.seasonNumber)] \o <<")">>
       IN /\ rec.source = "local"
          /\ rec.title = IF IsSome(LastUnit.seasonNumber) /\ ~HasSeasonWord(name)
                         THEN suffixed ELSE name
          /\ rec.poster = NULL /\ rec.posterLocal = NULL
          /\ rec.banner = NULL /\ rec.bannerLocal = NULL
          /\ rec.genres = <<>>
          /\ Len(rec.episodes) = Len(LastUnit.files)
          /\ \A k \in 1..Len(LastUnit.files) :
               /\ rec.episodes[k].episodeNumber = LastUnit.files[k].episodeNumber
               /\ rec.episodes[k].seasonNumber = LastUnit.files[k].seasonNumber

\* both providers answered without a match for a unit with a season and three
\* files, one of them a half episode, and the scan went on to its store write
C11_Witness ==
  /\ LocalOnlyDone
  /\ pc = "write"
  /\ Len(queried) = 2
  /\ IsSome(LastUnit.seasonNumber)
  /\ Len(LastUnit.files) = 3


\* the scan has just put the record of LastUnit into newMetadata
UnitDone == pc \in {"unit", "write", "idle"} /\ path # <<>>

-----------------------------------------------------------------------------
(* A second scan *)

\* the stores 'save-metadata' writes
SavedStores == {saveMetadata(m) : m \in SaveInputs}

\* C13: in the second scan of an unchanged folder tree a unit keeps its
\* identifier, and when the record the first scan stored under it was fetched
\* from a provider and has a cached poster, the second scan makes no provider
\* query for the unit. (The store loaded by the second of two operations is
\* the first scan's when no 'save-metadata' wrote it.)
C13_SecondScanReuses ==
  ( /\ opsLeft = 0
    /\ pc \in {"unit", "mal", "anilist", "fetched", "local"}
    /\ idx <= Len(media)
    /\ existingMetadata \notin SavedStores
    /\ media[idx].id \in DOMAIN existingMetadata
    /\ existingMetadata[media[idx].id].source \in Providers
    /\ existingMetadata[media[idx].id].posterLocal # NULL
    /\ existingMetadata[media[idx].id].fileEpisodes = FileEpisodesOf(media[idx]) )
  => pc = "unit"



-----------------------------------------------------------------------------
(* Claims about the directory classifier *)

Called(fn) == cCall.fn = fn /\ cResult # NotReturned

HasUnitAt(units, folderPath) ==
  \E k \in 1..Len(units) : units[k].folderPath = Text(folderPath)

\* a folder that can be stat'ed and listed and holds a video file that can be
\* stat'ed
HoldsVideo(dir) ==
  /\ dir.statOk /\ dir.kind = "dir" /\ dir.readdirOk
  /\ \E k \in 1..Len(dir.entries) :
        LET e == dir.entries[k] IN e.statOk /\ e.kind = "file" /\ isVideoFile(e.name)

\* every folder of the root that holds a readable video has its unit
ReadableFoldersHaveUnits(root, units) ==
  \A k \in 1..Len(root.entries) :
     HoldsVideo(root.entries[k]) => HasUnitAt(units, join(root.path, root.entries[k].name))

\* C14 as stated: an entry that cannot be stat'ed or read never makes the
\* classifier throw and every folder with readable videos still gets its
\* unit; a root that cannot be enumerated, and only that, is surfaced to the
\* caller as an error, by scanFolder and by scanMultipleFolders alike.
C14_RootFailureSurfaced ==
  /\ (Called("scanFolder") /\ cCall.root.path # <<>>) =>
        /\ ValueOf(cResult).ok <=> cCall.root.readdirOk
        /\ cCall.root.readdirOk => ReadableFoldersHaveUnits(cCall.root, ValueOf(cResult).units)
  /\ Called("scanMultipleFolders") =>
        (ValueOf(cResult).ok <=> \A k \in 1..Len(cCall.roots) : cCall.roots[k].readdirOk)

\* C14 amended: an entry that cannot be stat'ed or read never makes the
\* classifier throw and every folder with readable videos still gets its
\* unit; a root that cannot be enumerated, and only that, aborts the scan of
\* that root: scanFolder rejects, while scanMultipleFolders returns without
\* an error the units of the roots it could enumerate.
C14_BadEntriesSkipped ==
  /\ (Called("scanFolder") /\ cCall.root.path # <<>>) =>
        /\ ValueOf(cResult).ok <=> cCall.root.readdirOk
        /\ cCall.root.readdirOk => ReadableFoldersHaveUnits(cCall.root, ValueOf(cResult).units)
        /\ ~cCall.root.readdirOk => ValueOf(cResult).units = <<>>
  /\ Called("scanMultipleFolders") =>
        /\ ValueOf(cResult).ok
        /\ \A k \in 1..Len(cCall.roots) :
              cCall.roots[k].readdirOk =>
                ReadableFoldersHaveUnits(cCall.roots[k], ValueOf(cResult).units)
        /\ (\A k \in 1..Len(cCall.roots) : ~cCall.roots[k].readdirOk) =>
              ValueOf(cResult).units = <<>>

\* a root that cannot be enumerated, then a root with a folder of videos and
\* an entry that cannot be stat'ed
C14_Witness ==
  /\ Called("scanMultipleFolders")
  /\ Len(cCall.roots) = 2
  /\ ~cCall.roots[1].readdirOk
  /\ cCall.roots[2].readdirOk
  /\ \E k \in 1..Len(cCall.roots[2].entries) : ~cCall.roots[2].entries[k].statOk
  /\ Len(ValueOf(cResult).units) = 1



\* the positions of a folder's subdirectories and of its loose video files
SubDirsOf(dir) == {k \in 1..Len(dir.entries) : dir.entries[k].statOk /\ dir.entries[k].kind = "dir"}
LooseVideosOf(dir) ==
  {k \in 1..Len(dir.entries) :
     LET e == dir.entries[k] IN e.statOk /\ e.kind = "file" /\ isVideoFile(e.name)}

\* the units of a given type made for a folder
UnitsAt(units, type, folderPath) ==
  {k \in 1..Len(units) : units[k].type = type /\ units[k].folderPath = Text(folderPath)}

\* the movie units that hold exactly the one file at filePath
MoviesOf(units, filePath) ==
  {k \in 1..Len(units) :
     /\ units[k].type = "movie"
     /\ Len(units[k].files) = 1
     /\ units[k].files[1].filePath = Text(filePath)}

\* the listable folders and the video files among the entries of the root
IsFolder(e) == e.statOk /\ e.kind = "dir" /\ e.readdirOk
IsRootVideo(e) == e.statOk /\ e.kind = "file" /\ isVideoFile(e.name)

\* the classification of the root's entries, a unit being due for the
\* subdirectories of a category that satisfy Due
Classified(root, units, Due(_)) ==
  \A k \in 1..Len(root.entries) :
     LET e == root.entries[k]
         entryPath == join(root.path, e.name)
     IN /\ (IsFolder(e) /\ SubDirsOf(e) # {} /\ LooseVideosOf(e) = {}) =>
             /\ UnitsAt(units, "series", entryPath) = {}
             /\ \A d \in SubDirsOf(e) :
                   Cardinality(UnitsAt(units, "series", join(entryPath, e.entries[d].name)))
                     = IF Due(e.entries[d]) THEN 1 ELSE 0
        /\ (IsFolder(e) /\ LooseVideosOf(e) # {}) =>
             /\ Cardinality(UnitsAt(units, "series", entryPath)) = 1
             /\ \A d \in SubDirsOf(e) :
                   UnitsAt(units, "series", join(entryPath, e.entries[d].name)) = {}
        /\ IsRootVideo(e) => Cardinality(MoviesOf(units, entryPath)) = 1

AnySubDir(dir) == TRUE

\* C15 as stated: a child folder with a subdirectory and no loose video is a
\* category and each of its subdirectories becomes its own series unit; a
\* child folder with loose videos is exactly one series unit and its
\* subdirectories are not explored; a video file in the root becomes a movie
\* unit with one file.
C15_EverySubDirIsSeries ==
  (Called("scanFolder") /\ ValueOf(cResult).ok) =>
     Classified(cCall.root, ValueOf(cResult).units, AnySubDir)

\* C15 amended: as stated, except that a subdirectory of a category becomes
\* a series unit exactly when it can be listed and holds a video file that
\* can be stat'ed.
C15_Classification ==
  (Called("scanFolder") /\ ValueOf(cResult).ok) =>
     Classified(cCall.root, ValueOf(cResult).units, HoldsVideo)

\* a category with one subdirectory holding videos and others holding none,
\* beside a folder with loose videos and a subdirectory
C15_Witness ==
  /\ Called("scanFolder")
  /\ Len(cCall.root.entries) = 2
  /\ \E k \in 1..2 :
        LET e == cCall.root.entries[k]
        IN /\ IsFolder(e) /\ LooseVideosOf(e) = {}
           /\ \E a, b \in SubDirsOf(e) : HoldsVideo(e.entries[a]) /\ ~HoldsVideo(e.entries[b])
  /\ \E k \in 1..2 :
        LET e == cCall.root.entries[k]
        IN IsFolder(e) /\ LooseVideosOf(e) # {} /\ SubDirsOf(e) # {}
  /\ Len(ValueOf(cResult).units) = 2



-----------------------------------------------------------------------------
(* Claims about the identifier *)

\* the identifier the call in progress would have returned for another
\* folder name, or for another season and part
IdForFolder(folderName) ==
  generateSeriesId(cCall.seriesName, folderName, cCall.seasonNumber, cCall.partNumber)
IdFor(seasonNumber, partNumber) ==
  generateSeriesId(cCall.seriesName, cCall.folderName, seasonNumber, partNumber)

\* C16 as stated: the identifier depends on the series name, the season and
\* the part only: whatever the folder's name, the same name, season and part
\* give the same identifier.
C16_IdIgnoresFolder ==
  Called("generateSeriesId") =>
     \A f \in FolderNames : IdForFolder(f) = ValueOf(cResult)

\* C16 amended: for a derived series name of two characters or more the
\* identifier depends on the name, the season and the part only; a shorter
\* or empty name makes the folder's name the base of the identifier.
C16_IdIgnoresFolderOfNamedSeries ==
  Called("generateSeriesId") =>
     /\ Len(cCall.seriesName) >= 2 => \A f \in FolderNames : IdForFolder(f) = ValueOf(cResult)
     /\ Len(cCall.seriesName) < 2 =>
          \A f \in FolderNames : f # cCall.folderName => IdForFolder(f) # ValueOf(cResult)

\* the identifier of "My Show", season 2, made under a folder of another label
C16_Witness ==
  /\ Called("generateSeriesId")
  /\ cCall.seriesName = Chars("My Show")
  /\ cCall.folderName = Chars("Show (different folder label)")
  /\ cCall.seasonNumber = Some(2)
  /\ cCall.partNumber = None
  /\ ValueOf(cResult) = Chars("my_show_s02")

\* C17: for one series name, two different (season, part) pairs never yield
\* the same identifier.
C17_IdsOfSeasonsAndPartsDiffer ==
  Called("generateSeriesId") =>
     \A s, p \in Numbers :
        <<s, p>> # <<cCall.seasonNumber, cCall.partNumber>> => IdFor(s, p) # ValueOf(cResult)



-----------------------------------------------------------------------------
(* Claims about the tokenizer *)

\* S<digits>E<digits>, case-insensitive, anywhere in the name
SeasonEpisodeAnywhere == LitI("S") \o Digits(1, Many, 1) \o LitI("E") \o Digits(1, Many, 2)

\* C18: for every filename containing a match of S<digits>E<digits>
\* (case-insensitive), extractSeasonAndEpisode returns exactly that season
\* and that episode, whatever other digits the name holds.
C18_SeasonEpisodeExtracted ==
  Called("extractSeasonAndEpisode") =>
     LET m == Search(SeasonEpisodeAnywhere, cCall.filename, 1)
     IN m.ok => ValueOf(cResult) = [season |-> Some(ParseInt(m.caps[1])),
                                    episode |-> 10 * ParseInt(m.caps[2])]

\* the maximal runs of digits of a name, as <<first, last>> positions
DigitRunsOf(s) ==
  {r \in (1..Len(s)) \X (1..Len(s)) :
     /\ r[1] <= r[2]
     /\ \A k \in r[1]..r[2] : s[k] \in DigitChars
     /\ (r[1] = 1 \/ s[r[1] - 1] \notin DigitChars)
     /\ (r[2] = Len(s) \/ s[r[2] + 1] \notin DigitChars)}
RunValue(s, r) == ParseInt(SubSeq(s, r[1], r[2]))
Years == 1900..2099
NonYearRunsOf(s) == {r \in DigitRunsOf(s) : RunValue(s, r) \notin Years}

\* the episode is a whole number that is a year
EpisodeIsYear(result) == result.episode % 10 = 0 /\ (result.episode \div 10) \in Years

\* none of the patterns tried before the digit runs matches the base name
NoPatternMatches(baseName) ==
  /\ ~Search(SeasonEpisodePattern, baseName, 1).ok
  /\ ~Search(DecimalEpisodePattern, baseName, 1).ok
  /\ FirstMatching(EpisodePatterns, baseName) = 0

\* the name without its last dot and what follows it
Stem(filename) ==
  LET dots == {k \in 2..Len(filename) : filename[k] = "."}
  IN IF dots = {} THEN filename
     ELSE SubSeq(filename, 1, (CHOOSE k \in dots : \A j \in dots : j <= k) - 1)

\* the extension is not read, and without a usable digit run the episode is 1
ExtensionAndDefault(filename, result) ==
  /\ result = extractSeasonAndEpisode(Stem(filename) \o Chars(".mkv"))
  /\ filename = Chars("Show.Name.mp4") => result.episode = 10
  /\ (NoPatternMatches(Stem(filename)) /\ NonYearRunsOf(Stem(filename)) = {}) =>
        result = [season |-> None, episode |-> 10]

\* C19 as stated: a year-like number (1900-2099) is never the episode number
\* when the name without its extension also holds a digit run outside that
\* range; the extension is never read as an episode number; the episode is 1
\* when no usable digit run remains.
C19_YearNeverChosen ==
  Called("extractSeasonAndEpisode") =>
     /\ NonYearRunsOf(Stem(cCall.filename)) # {} => ~EpisodeIsYear(ValueOf(cResult))
     /\ ExtensionAndDefault(cCall.filename, ValueOf(cResult))

\* C19 amended: when none of the episode patterns matches and the digit runs
\* decide, a year-like number (1900-2099) is never the episode number if the
\* name without its extension also holds a digit run outside that range (the
\* last such run is the episode); the extension is never read as an episode
\* number; the episode is 1 when no usable digit run remains.
C19_YearNeverChosenAmongRuns ==
  Called("extractSeasonAndEpisode") =>
     LET base == Stem(cCall.filename)
         runs == NonYearRunsOf(base)
     IN /\ (NoPatternMatches(base) /\ runs # {}) =>
             /\ ~EpisodeIsYear(ValueOf(cResult))
             /\ \E r \in runs :
                   /\ \A q \in runs : q[1] <= r[1]
                   /\ ValueOf(cResult) = [season |-> None, episode |-> 10 * RunValue(base, r)]
        /\ ExtensionAndDefault(cCall.filename, ValueOf(cResult))

\* a name with a year and a later number that no pattern matches
C19_Witness ==
  /\ Called("extractSeasonAndEpisode")
  /\ cCall.filename = Chars("Show.2019.5.mp4")
  /\ NoPatternMatches(Stem(cCall.filename))
  /\ ValueOf(cResult) = [season |-> None, episode |-> 50]



\* the root of the end-to-end scenario: Series/My Show/ with its three files
ScenarioRoot == Root("/lib", TRUE, <<D_Scenario>>)

\* C20: for a root containing Series/My Show/ with the files Episode 01.mkv,
\* Episode 02.mkv and Episode 06.5.mkv the classifier returns exactly one
\* unit, a series named "My Show" found through the category folder Series,
\* whose three files have the episode numbers 1, 2, 6.5 in this order.
C20_ScenarioUnit ==
  (Called("scanFolder") /\ cCall.root = ScenarioRoot) =>
     LET units == ValueOf(cResult).units
     IN /\ ValueOf(cResult).ok
        /\ Len(units) = 1
        /\ units[1].type = "series"
        /\ units[1].folderPath = "/lib/Series/My Show"
        /\ units[1].name = Chars("My Show")
        /\ [k \in 1..Len(units[1].files) |-> units[1].files[k].episodeNumber] = <<10, 20, 65>>


-----------------------------------------------------------------------------
(* The files of a unit *)

\* the units a finished call of the classifier returned
ReturnedUnits ==
  IF Called("scanFolder") \/ Called("scanMultipleFolders") THEN ValueOf(cResult).units
  ELSE <<>>

\* C21: within every unit the classifier returns, no two files share the
\* same (season number, episode number) pair, and no two files share the
\* same absolute path.
C21_EpisodesAndPathsUnique ==
  \A k \in 1..Len(ReturnedUnits) :
     \A a, b \in 1..Len(ReturnedUnits[k].files) :
        a # b =>
          LET f == ReturnedUnits[k].files[a]
              g == ReturnedUnits[k].files[b]
          IN /\ <<f.seasonNumber, f.episodeNumber>> # <<g.seasonNumber, g.episodeNumber>>
             /\ f.filePath # g.filePath


-----------------------------------------------------------------------------
(* The store during one scan *)

\* the scan is between its read of the store and its write
InUnits == pc \in {"unit", "mal", "anilist", "fetched", "local", "write"}

\* C22: an invocation of 'scan-and-fetch-metadata' whose classifier call
\* returned reads the store exactly once, before the first unit, and writes
\* it exactly once, after the last unit, replacing the whole store by what
\* it computed; no step of the scan writes the store between the units.
C22_StoreReadOnceWrittenOnce ==
  /\ [] /\ pc \in {"scanFolder", "load"} => storeReads = 0 /\ storeWrites = 0
        /\ InUnits => storeReads = 1 /\ storeWrites = 0
        /\ (pc = "idle" /\ scanStatus = "success") => storeReads = 1 /\ storeWrites = 1
  /\ [][ /\ storeReads' > storeReads =>
              pc = "load" /\ idx' = 1 /\ newMetadata' = EmptyStore /\ existingMetadata' = store
         /\ storeWrites' > storeWrites =>
              /\ pc = "write" /\ idx = Len(media) + 1
              /\ \A k \in 1..Len(media) : media[k].id \in DOMAIN newMetadata
              /\ store' = saveMetadata(cleanedMetadata(existingMetadata, newMetadata))
         /\ (opsLeft' = opsLeft /\ storeWrites' = storeWrites) => store' = store ]_vars

C22_Witness ==
  /\ pc = "idle" /\ scanStatus = "success"
  /\ storeReads = 1 /\ storeWrites = 1
  /\ Len(media) = MaxUnits
  /\ DOMAIN store = {media[k].id : k \in 1..Len(media)}


-----------------------------------------------------------------------------
(* Thumbnail extraction *)

\* the extractor processes a call of generateThumbnail has started
Started == SelectSeq(tCalls, LAMBDA c : c.proc # "none")

FailedAt(i) == Len(tCalls) >= i /\ tCalls[i].proc = "closedFailed"

\* C23: one generateThumbnail call leads to at most two calls of
\* extractFrame and at most two extractor processes; the second call is made
\* exactly when the process of the first, at a timestamp above 10 s (the
\* default is 120 s), closed without a frame, and it is at 10 s; when that
\* one fails too the result is null; and the call always resolves.
C23_OneRetryThenNull ==
  /\ [] /\ Len(tCalls) <= 2 /\ Len(Started) <= 2
        /\ (FailedAt(1) /\ tCalls[1].timestamp > 10) <=> Len(tCalls) = 2
        /\ Len(tCalls) = 2 => tCalls[2].timestamp = 10
        /\ (FailedAt(2) \/ (FailedAt(1) /\ tCalls[1].timestamp = 10)) => tResult = Some(NULL)
        /\ tResult # None =>
             \/ tResult = Some(NULL)
             \/ \E ts \in tCached : tResult = Some(thumbnailPath(ts))
  /\ <>(tResult # None)

C23_Witness ==
  /\ tCall # NoCall /\ tCall.timestamp = 120
  /\ Len(Started) = 2
  /\ FailedAt(1) /\ FailedAt(2)
  /\ tCalls[2].timestamp = 10
  /\ tResult = Some(NULL)


-----------------------------------------------------------------------------
(* Short names and the cached record *)

\* the cache check of the unit before media[idx] ended in a hit
HitDecided == pc \in {"unit", "write"} /\ Len(path) = 4 /\ path[3] = "CacheHit"

\* the cache check of media[idx] ended in a miss: the providers are queried
MissDecided == pc = "mal"

ShortName(unit) == Len(normalizedOf[unit.name]) < 3

\* C24 as stated: a unit whose normalized name is shorter than 3 characters
\* is never served from the cached record, whatever the cached title is.
C24_ShortNamesRefetched == HitDecided => ~ShortName(media[idx - 1])

\* C24: a unit whose normalized name is shorter than 3 characters is served
\* from the cached record exactly when that record has a title and a cached
\* poster and its normalized title equals the normalized name; otherwise the
\* providers are queried, and the cached record, if any, stays in the new
\* store until a new record replaces it.
C24_ShortNamesNeedExactTitle ==
  LET exact(existing, unit) ==
        /\ HasTitleAndPoster(existing)
        /\ normalizedOf[existing.title] = normalizedOf[unit.name]
  IN /\ (HitDecided /\ ShortName(media[idx - 1])) =>
           /\ media[idx - 1].id \in DOMAIN existingMetadata
           /\ exact(existingMetadata[media[idx - 1].id], media[idx - 1])
     /\ (MissDecided /\ ShortName(media[idx])) =>
           /\ media[idx].id \in DOMAIN existingMetadata =>
                /\ ~exact(existingMetadata[media[idx].id], media[idx])
                /\ media[idx].id \in DOMAIN newMetadata
                /\ newMetadata[media[idx].id] = existingMetadata[media[idx].id]

C24_Witness ==
  /\ HitDecided
  /\ media[idx - 1] = U_86
  /\ ShortName(U_86)
  /\ newMetadata["86"].title = S_86


-----------------------------------------------------------------------------
(* The record of a cache hit *)

\* the unit of the hit, the record the store held for it, the record made
HitUnit == media[idx - 1]
HitExisting == existingMetadata[HitUnit.id]
HitRecord == newMetadata[HitUnit.id]

\* the fields of a record that come from the provider and are kept on a hit
KeptOnHit(existing, new) ==
  /\ new.description = existing.description
  /\ new.genres = existing.genres
  /\ new.poster = existing.poster
  /\ new.posterLocal = existing.posterLocal
  /\ new.banner = existing.banner
  /\ new.bannerLocal = existing.bannerLocal
  /\ new.episodes = existing.episodes
  /\ new.source = existing.source

\* the fields a hit takes from the current scan
RefreshedOnHit(new, unit) ==
  /\ new.fileEpisodes = FileEpisodesOf(unit)
  /\ new.folderPath = unit.folderPath

\* C25 as stated: on a cache hit no provider is queried and the new record
\* keeps every provider field of the existing record, the title among them;
\* only fileEpisodes and folderPath are those of the current scan.
C25_HitKeepsAllButFiles ==
  HitDecided =>
    /\ queried = <<>>
    /\ KeptOnHit(HitExisting, HitRecord)
    /\ HitRecord.title = HitExisting.title
    /\ HitRecord.seriesId = HitExisting.seriesId
    /\ HitRecord.type = HitExisting.type
    /\ RefreshedOnHit(HitRecord, HitUnit)

\* C25: on a cache hit no provider is queried; the new record keeps the
\* description, genres, poster, posterLocal, banner, episodes and source of
\* the existing record; its title is the existing title, with " (Season N)"
\* appended when the unit has a season number and the title has no
\* "(Season N)"; its seriesId, fileEpisodes, folderPath and type are those
\* of the current scan.
C25_HitKeepsProviderFields ==
  HitDecided =>
    /\ queried = <<>>
    /\ \A k \in 1..Len(path) : path[k] # "ProviderQuery"
    /\ KeptOnHit(HitExisting, HitRecord)
    /\ HitRecord.title =
         IF IsSome(HitUnit.seasonNumber) /\ ~HasSeasonParen(HitExisting.title)
         THEN WithSeasonSuffix(HitExisting.title, ValueOf(HitUnit.seasonNumber))
         ELSE HitExisting.title
    /\ HitRecord.seriesId = HitUnit.id
    /\ HitRecord.type = HitUnit.type
    /\ RefreshedOnHit(HitRecord, HitUnit)

C25_Witness ==
  /\ HitDecided
  /\ HitUnit = U_MyShowS2
  /\ HitExisting.title = S_MyShow
  /\ HitRecord.title = S_MyShowS2
  /\ HitExisting.folderPath # HitRecord.folderPath
  /\ HitRecord.genres = <<"Drama">>


-----------------------------------------------------------------------------
(* The order of the files of a unit *)

\* a null season compares as 0
SeasonKey(f) == IF IsSome(f.seasonNumber) THEN ValueOf(f.seasonNumber) ELSE 0

\* by season ascending, then by episode ascending (episodes are in tenths:
\* 60 < 65 < 70 is 6 < 6.5 < 7)
InSeasonEpisodeOrder(files) ==
  \A a, b \in 1..Len(files) :
     a < b => \/ SeasonKey(files[a]) < SeasonKey(files[b])
              \/ /\ SeasonKey(files[a]) = SeasonKey(files[b])
                 /\ files[a].episodeNumber <= files[b].episodeNumber

\* C26: in every series unit the classifier returns the files are ordered by
\* season ascending, then episode ascending, a null season compared as 0 and
\* fractional episodes between their whole neighbours; the fileEpisodes of the
\* record the scan writes for the unit, on each of its three paths, keep
\* that order.
C26_FilesOrdered ==
  \A k \in 1..Len(ReturnedUnits) :
     ReturnedUnits[k].type = "series" =>
        /\ InSeasonEpisodeOrder(ReturnedUnits[k].files)
        /\ FileEpisodesOf(ReturnedUnits[k]) = ReturnedUnits[k].files
        /\ LocalRecord(ReturnedUnits[k]).fileEpisodes = ReturnedUnits[k].files
        /\ CacheHitRecord(LocalRecord(ReturnedUnits[k]), ReturnedUnits[k]).fileEpisodes
             = ReturnedUnits[k].files
        /\ FetchedRecord([title |-> S_Show, poster |-> NULL, genres |-> <<>>, episodes |-> <<>>],
                         "mal", NULL, ReturnedUnits[k]).fileEpisodes = ReturnedUnits[k].files

\* the folder "Show BD": episodes 7, 6.5, 6 and 6 listed in that order
\* without a season, and one file of season 1
C26_Witness ==
  /\ Called("scanFolder")
  /\ \E k \in 1..Len(ReturnedUnits) :
        /\ ReturnedUnits[k].folderPath = "/lib/Show BD"
        /\ Map(LAMBDA f : <<SeasonKey(f), f.episodeNumber>>, ReturnedUnits[k].files)
             = << <<0, 60>>, <<0, 60>>, <<0, 65>>, <<0, 70>>, <<1, 20>> >>


-----------------------------------------------------------------------------
(* Records of units the scan did not see *)

\* the identifiers the current scan produced
ScannedIds == {media[k].id : k \in 1..Len(media)}

\* the records the scan read that have files and are not of a scanned unit
Unscanned ==
  {k \in DOMAIN existingMetadata :
     Len(existingMetadata[k].fileEpisodes) > 0 /\ k \notin ScannedIds}

-----------------------------------------------------------------------------
(* Operations on the store while a scan runs *)

\* C28: what another operation did to the store between a scan's read and
\* its write still holds after the write: a record removed since the read
\* stays absent, and a record written since the read stays as written
\* (records of the units of the scan itself aside).
C28_NoUpdateLost ==
  [][ storeWrites' > storeWrites =>
        /\ \A k \in (DOMAIN existingMetadata \ DOMAIN store) \ ScannedIds :
              k \notin DOMAIN store'
        /\ \A k \in DOMAIN store \ ScannedIds :
              (k \notin DOMAIN existingMetadata \/ existingMetadata[k] # store[k]) =>
                 k \in DOMAIN store' /\ store'[k] = store[k] ]_vars


-----------------------------------------------------------------------------
(* Identifiers within one scan *)

\* C29: two distinct units returned by one run of the classifier never share
\* an identifier, so that the scan, which files each unit's record under the
\* unit's id, writes as many records as it counts units.
C29_IdsDistinct ==
  /\ \A a, b \in 1..Len(ReturnedUnits) :
        a # b => ReturnedUnits[a].id # ReturnedUnits[b].id
  /\ Cardinality({ReturnedUnits[k].id : k \in 1..Len(ReturnedUnits)}) = Len(ReturnedUnits)


-----------------------------------------------------------------------------
(* The image cache index *)

\* C30: at most batchSize (5) calls of cacheImage are in flight at a time,
\* and when cacheImages has returned, every URL it reports with a local path
\* has an entry in the persisted cache index that points to that path.
C30_BoundedAndIndexed ==
  /\ Len(InFlight) <= batchSize
  /\ iReturned =>
       \A url \in DOMAIN iResults :
          iResults[url] # NULL => url \in DOMAIN iIndex /\ iIndex[url] = iResults[url]

=============================================================================
